---------------------------- MODULE Spec2Model ----------------------------
(***************************************************************************)
(* Model of shadow-codex: the incremental JSONL parser (parser.ts), the    *)
(* extractor (extractor.ts) and the session store (store.ts).              *)
(*                                                                         *)
(* Text is a sequence of one-character strings.  A file is a sequence of   *)
(* bytes; the byte alphabet is                                             *)
(*   "{" "}"      the braces of a JSON object                              *)
(*   "M" "U"      the fragment "type":"session_meta" / an event_msg with   *)
(*                payload type user_message                                *)
(*   "1" "2"      the fragment "timestamp":<a date string of time 1 / 2>   *)
(*   "C3" "A9"    the two UTF-8 bytes of the character U+00E9, which may   *)
(*                stand in a string of the payload                         *)
(*   "LF" "CR" "SP"  line feed, carriage return, space                     *)
(*   "x"          a character that makes a line invalid JSON               *)
(* Times (ISO strings of toISOString) are positive naturals; 0 stands for  *)
(* an absent timestamp (undefined, ordered as the empty string).           *)
(***************************************************************************)
EXTENDS Integers, Sequences, FiniteSets, TLC

(***************************************************************************)
(* Bounds of the model.                                                    *)
(***************************************************************************)
\* the parser on its own: pieces written, times of parsing, truncations, polls, and
\* bytes written at a time
MaxPieces == 2
MaxClock == 2
MaxTruncs == 1
MaxPolls == 4
MaxWrite == 7
\* the store: appends to the active rollout file, the latest time, and faults
\* (truncations, modification times set back, failed I/O calls) taken together
MaxAppends == 1
MaxTime == 3
MaxFaults == 1
MaxFragments == 2
MaxRestarts == 1
MaxWords == 3
MaxVisible == 3
\* the throttle: the step of the clock and the last time, in ms
TickMs == 250
MaxNow == 3000
MaxAdds == 5
MaxWatchers == 4

\* store.ts:196  rewind = 4096 and store.ts:452  new EventDeduper(50_000), in the
\* scale of the model's files, which are a few bytes and a few events long
rewind == 3
DeduperMax == 2
\* store.ts:302
maxAttempts == 6
\* store.ts:105  throttle(..., 500)
waitMs == 500

\* parser.ts:18  maxChunkBytes = 4 * 1024 * 1024
maxChunkBytes == 4194304

Min(a, b) == IF a < b THEN a ELSE b
Max(a, b) == IF a > b THEN a ELSE b

(***************************************************************************)
(* Buffer.toString("utf8") of one chunk: a lead byte followed by its       *)
(* continuation byte is one character; a lead byte without continuation    *)
(* and a continuation byte without lead each decode to U+FFFD.             *)
(***************************************************************************)
RECURSIVE utf8Decode(_)
utf8Decode(b) ==
  IF b = <<>> THEN <<>>
  ELSE IF Head(b) = "C3"
       THEN IF Len(b) >= 2 /\ b[2] = "A9"
            THEN <<"U+E9">> \o utf8Decode(SubSeq(b, 3, Len(b)))
            ELSE <<"U+FFFD">> \o utf8Decode(Tail(b))
       ELSE IF Head(b) = "A9"
            THEN <<"U+FFFD">> \o utf8Decode(Tail(b))
            ELSE <<Head(b)>> \o utf8Decode(Tail(b))

(***************************************************************************)
(* String.prototype.split(/\r?\n/): the text between line feeds, one       *)
(* carriage return before a line feed belonging to the separator.          *)
(***************************************************************************)
StripCR(cur) ==
  IF cur # <<>> /\ cur[Len(cur)] = "CR" THEN SubSeq(cur, 1, Len(cur) - 1) ELSE cur

RECURSIVE SplitAcc(_, _)
SplitAcc(text, cur) ==
  IF text = <<>> THEN <<cur>>
  ELSE IF Head(text) = "LF"
       THEN <<StripCR(cur)>> \o SplitAcc(Tail(text), <<>>)
       ELSE SplitAcc(Tail(text), Append(cur, Head(text)))

splitLines(text) == SplitAcc(text, <<>>)

(***************************************************************************)
(* String.prototype.trim.                                                  *)
(***************************************************************************)
IsWs(c) == c \in {"SP", "CR", "LF"}

RECURSIVE TrimLeft(_)
TrimLeft(s) == IF s # <<>> /\ IsWs(Head(s)) THEN TrimLeft(Tail(s)) ELSE s

RECURSIVE TrimRight(_)
TrimRight(s) ==
  IF s # <<>> /\ IsWs(s[Len(s)]) THEN TrimRight(SubSeq(s, 1, Len(s) - 1)) ELSE s

trim(s) == TrimRight(TrimLeft(s))

(***************************************************************************)
(* safeJsonParse (utils.ts) of a trimmed line.  A line is JSON when it is  *)
(* an object: "{", then at most one type fragment, at most one timestamp   *)
(* fragment, then characters of the payload string, then "}".              *)
(***************************************************************************)
TypeChars == {"M", "U"}
TsChars == {"1", "2"}
PayloadChars == {"U+E9", "U+FFFD"}

NoTimestamp == [form |-> "none", t |-> 0]

RawTimestamp(c) == [form |-> "date", t |-> IF c = "1" THEN 1 ELSE 2]

RawOfInner(inner) ==
  LET hasType == inner # <<>> /\ Head(inner) \in TypeChars
      r1 == IF hasType THEN Tail(inner) ELSE inner
      hasTs == r1 # <<>> /\ Head(r1) \in TsChars
      r2 == IF hasTs THEN Tail(r1) ELSE r1
  IN [ok |-> \A i \in 1..Len(r2) : r2[i] \in PayloadChars,
      value |-> [type |-> IF ~hasType THEN "undefined"
                           ELSE IF Head(inner) = "M" THEN "session_meta" ELSE "event_msg",
                 ptype |-> IF hasType /\ Head(inner) = "U" THEN "user_message" ELSE "undefined",
                 timestamp |-> IF hasTs THEN RawTimestamp(Head(r1)) ELSE NoTimestamp,
                 text |-> r2]]

safeJsonParse(t) ==
  IF Len(t) >= 2 /\ t[1] = "{" /\ t[Len(t)] = "}"
  THEN RawOfInner(SubSeq(t, 2, Len(t) - 1))
  ELSE [ok |-> FALSE, value |-> [type |-> "undefined", ptype |-> "undefined",
                                  timestamp |-> NoTimestamp, text |-> <<>>]]

(***************************************************************************)
(* toIso (utils.ts): the canonical ISO string of a date string, undefined  *)
(* (0) for what is no string or no date.                                   *)
(***************************************************************************)
toIso(ts) == IF ts.form \in {"date", "iso"} THEN ts.t ELSE 0

(***************************************************************************)
(* IncrementalJsonlParser.poll, in the three parts its awaits cut it into. *)
(* pollStat: lines 23-36, from the result of fs.stat.                      *)
(***************************************************************************)
\* pollStat keeping the sequence counter when the file has shrunk
pollStat_keepSeq(prev, stat) ==
  LET truncated == stat.size < prev.byteOffset
      state == IF truncated
               THEN [prev EXCEPT !.lastSize = stat.size, !.lastMtimeMs = stat.mtimeMs,
                                 !.byteOffset = 0, !.partialBuffer = <<>>]
               ELSE [prev EXCEPT !.lastSize = stat.size, !.lastMtimeMs = stat.mtimeMs]
  IN [truncated |-> truncated, state |-> state, newBytes |-> stat.size - state.byteOffset]

pollStat(prev, stat) ==
  LET truncated == stat.size < prev.byteOffset
      state == IF truncated
               THEN [prev EXCEPT !.lastSize = stat.size, !.lastMtimeMs = stat.mtimeMs,
                                 !.byteOffset = 0, !.partialBuffer = <<>>, !.seq = 0]
               ELSE [prev EXCEPT !.lastSize = stat.size, !.lastMtimeMs = stat.mtimeMs]
  IN [truncated |-> truncated, state |-> state, newBytes |-> stat.size - state.byteOffset]

(***************************************************************************)
(* The read loop, lines 38-55: chunks of at most maxChunkBytes, each       *)
(* decoded on its own, until remaining is 0 or a read returns no byte.     *)
(***************************************************************************)
RECURSIVE readChunks(_, _, _)
readChunks(content, offset, remaining) ==
  IF remaining <= 0 THEN [text |-> <<>>, offset |-> offset]
  ELSE LET chunkSize == Min(maxChunkBytes, remaining)
           bytesRead == Max(0, Min(chunkSize, Len(content) - offset))
       IN IF bytesRead <= 0 THEN [text |-> <<>>, offset |-> offset]
          ELSE LET rest == readChunks(content, offset + bytesRead, remaining - bytesRead)
               IN [text |-> utf8Decode(SubSeq(content, offset + 1, offset + bytesRead))
                              \o rest.text,
                   offset |-> rest.offset]

(***************************************************************************)
(* The loop over the lines, parser.ts:71-92.  now is new Date() of a       *)
(* parse_error record.                                                     *)
(***************************************************************************)
ParseErrorRaw(now) ==
  [type |-> "parse_error", ptype |-> "undefined",
   timestamp |-> [form |-> "iso", t |-> now], text |-> <<>>]

\* parseLines giving up at the first line that is not JSON
RECURSIVE parseLines_abort(_, _, _)
parseLines_abort(lines, seq, now) ==
  IF lines = <<>> THEN [events |-> <<>>, seq |-> seq]
  ELSE LET trimmed == trim(Head(lines))
       IN IF trimmed = <<>> THEN parseLines_abort(Tail(lines), seq, now)
          ELSE LET parsed == safeJsonParse(trimmed)
                   ev == [seq |-> seq + 1,
                          raw |-> IF parsed.ok THEN parsed.value ELSE ParseErrorRaw(now),
                          rawLine |-> trimmed]
                   rest == IF parsed.ok THEN parseLines_abort(Tail(lines), seq + 1, now)
                           ELSE [events |-> <<>>, seq |-> seq + 1]
               IN [events |-> <<ev>> \o rest.events, seq |-> rest.seq]

\* parseLines giving a sequence number to the blank lines too
RECURSIVE parseLines_countBlank(_, _, _)
parseLines_countBlank(lines, seq, now) ==
  IF lines = <<>> THEN [events |-> <<>>, seq |-> seq]
  ELSE LET trimmed == trim(Head(lines))
       IN IF trimmed = <<>> THEN parseLines_countBlank(Tail(lines), seq + 1, now)
          ELSE LET parsed == safeJsonParse(trimmed)
                   ev == [seq |-> seq + 1,
                          raw |-> IF parsed.ok THEN parsed.value ELSE ParseErrorRaw(now),
                          rawLine |-> trimmed]
                   rest == parseLines_countBlank(Tail(lines), seq + 1, now)
               IN [events |-> <<ev>> \o rest.events, seq |-> rest.seq]

RECURSIVE parseLines(_, _, _)
parseLines(lines, seq, now) ==
  IF lines = <<>> THEN [events |-> <<>>, seq |-> seq]
  ELSE LET trimmed == trim(Head(lines))
       IN IF trimmed = <<>> THEN parseLines(Tail(lines), seq, now)
          ELSE LET parsed == safeJsonParse(trimmed)
                   ev == [seq |-> seq + 1,
                          raw |-> IF parsed.ok THEN parsed.value ELSE ParseErrorRaw(now),
                          rawLine |-> trimmed]
                   rest == parseLines(Tail(lines), seq + 1, now)
               IN [events |-> <<ev>> \o rest.events, seq |-> rest.seq]

(***************************************************************************)
(* pollFinish: lines 57-94, from the text the read loop returned.          *)
(***************************************************************************)
\* pollFinish parsing the text after the last line feed as a line
pollFinish_noHold(st, truncated, read, now) ==
  LET combined == st.partialBuffer \o read.text
      parsed == parseLines(splitLines(combined), st.seq, now)
  IN [events |-> parsed.events,
      state |-> [st EXCEPT !.byteOffset = read.offset, !.partialBuffer = <<>>,
                           !.seq = parsed.seq],
      truncated |-> truncated]

pollFinish(st, truncated, read, now) ==
  LET combined == st.partialBuffer \o read.text
      lines == splitLines(combined)
      hasTrailingNewline == combined # <<>> /\ combined[Len(combined)] = "LF"
      kept == IF hasTrailingNewline THEN lines ELSE SubSeq(lines, 1, Len(lines) - 1)
      parsed == parseLines(kept, st.seq, now)
  IN [events |-> parsed.events,
      state |-> [st EXCEPT !.byteOffset = read.offset,
                           !.partialBuffer = IF hasTrailingNewline THEN <<>>
                                             ELSE lines[Len(lines)],
                           !.seq = parsed.seq],
      truncated |-> truncated]

(***************************************************************************)
(* poll as one call, for a file that does not change during the call.      *)
(***************************************************************************)
poll(content, mtimeMs, prev, now) ==
  LET s == pollStat(prev, [size |-> Len(content), mtimeMs |-> mtimeMs])
  IN IF s.newBytes <= 0
     THEN [events |-> <<>>, state |-> s.state, truncated |-> s.truncated]
     ELSE pollFinish(s.state, s.truncated,
                     readChunks(content, s.state.byteOffset, s.newBytes), now)

(***************************************************************************)
(* extractor.ts.  baseId is sha1Hex of filePath:seq:ts:type; the hash is   *)
(* taken as injective, so the id is the tuple it is computed from.         *)
(***************************************************************************)
baseId(ctx, seq, ts, type) == <<ctx.filePath, seq, ts, type>>

ShadowEvent(ctx, item, ts, type, kind, source, tags, severity) ==
  [id |-> baseId(ctx, item.seq, ts, type), sessionKey |-> ctx.sessionKey, ts |-> ts,
   seq |-> item.seq, kind |-> kind, source |-> source, tags |-> tags,
   severity |-> severity, rawRef |-> [filePath |-> ctx.filePath, seq |-> item.seq]]

(***************************************************************************)
(* The function_call_output branch of extractShadowEvents.  An output text *)
(* is a sequence of words, of which "E0" is the marker "Exit code: 0" and  *)
(* "E1" the marker "Exit code: 1"; a payload without a name has the name   *)
(* "".                                                                     *)
(***************************************************************************)
ErrorWords == {"disconnected", "exception", "failed", "error"}
WarnWords == {"retry", "warn"}
Words == {"E0", "E1", "error", "warn", "ok"}
ToolNames == {"shell_command", "apply_patch", ""}

severityFromText(text) ==
  IF \E i \in 1..Len(text) : text[i] \in ErrorWords THEN "error"
  ELSE IF \E i \in 1..Len(text) : text[i] \in WarnWords THEN "warn"
  ELSE "info"

tagifyToolName(name) ==
  IF name = "shell_command" THEN <<"tool", "shell">> ELSE <<"tool">>

\* outStr.match(/Exit code:\s*(\d+)/i): the number of the first marker, -1 for no match
exitCodeMatch(outStr) ==
  LET at == {i \in 1..Len(outStr) : outStr[i] \in {"E0", "E1"}}
      first == CHOOSE i \in at : \A j \in at : i <= j
  IN IF at = {} THEN -1 ELSE IF outStr[first] = "E0" THEN 0 ELSE 1

\* the exit code of a shell_command never looked at
functionCallOutput_noExit(ctx, it, ts, p) ==
  LET toolName == IF p.name = "" THEN "unknown_tool" ELSE p.name
      sev == IF p.output # <<>> THEN severityFromText(p.output) ELSE "info"
      tags == <<"tool_result">> \o tagifyToolName(toolName)
  IN <<ShadowEvent(ctx, it, ts, <<"tool_result", toolName>>, "TOOL_RESULT",
                   "response_item", tags, sev)
       @@ [relatedCallId |-> p.call_id]>>

functionCallOutput(ctx, it, ts, p) ==
  LET toolName == IF p.name = "" THEN "unknown_tool" ELSE p.name
      sev == IF p.output # <<>> THEN severityFromText(p.output) ELSE "info"
      tags == <<"tool_result">> \o tagifyToolName(toolName)
      m == exitCodeMatch(p.output)
  IN IF toolName = "shell_command" /\ m > 0
     THEN <<ShadowEvent(ctx, it, ts, <<"tool_result", toolName>>, "TOOL_RESULT",
                        "response_item", tags \o <<"shell">>, "error")
            @@ [relatedCallId |-> p.call_id]>>
     ELSE <<ShadowEvent(ctx, it, ts, <<"tool_result", toolName>>, "TOOL_RESULT",
                        "response_item", tags, sev)
            @@ [relatedCallId |-> p.call_id]>>

\* classifyShellCommand, extractor.ts:27-43: the tags of a command, which is a
\* sequence of words: "rg" is a search command, "cat" a read command, "skills" a
\* path under .agents/skills
classifyShellCommand(command) ==
  LET has(w) == \E i \in 1..Len(command) : command[i] = w
      isSearch == has("rg")
      isRead == has("cat")
      isSkill == has("skills")
  IN <<"shell">>
     \o (IF isSearch THEN <<"search">> ELSE <<>>)
     \o (IF isRead THEN <<"file-read">> ELSE <<>>)
     \o (IF isRead /\ isSkill THEN <<"skill", "skill-read">> ELSE <<>>)
     \o (IF ~isSearch /\ ~isRead THEN <<"exec">> ELSE <<>>)

\* a summary counted as blank only when it has no character at all
summaryBlank_noTrim(summary) ==
  ~summary.isArray \/ \A i \in 1..Len(summary.texts) : summary.texts[i] = ""

\* extractor.ts:337-338: !summaryText.trim(), where summaryText joins the texts of the
\* summary with line feeds and is "" for a summary that is no array; a text is "",
\* white space ("ws") or has a visible character
summaryBlank(summary) ==
  ~summary.isArray \/ \A i \in 1..Len(summary.texts) : summary.texts[i] \in {"", "ws"}

\* extractShadowEvents, extractor.ts:70-358.  Of an event the title and the details
\* are left out; the tool names of the alphabet have no mcp__ prefix.  A payload of
\* function_call has the command of its arguments, one of reasoning its summary.
extractShadowEvents(ctx, item) ==
  LET raw == item.raw
      ts == toIso(raw.timestamp)
  IN IF raw.type = "parse_error"
     THEN <<ShadowEvent(ctx, item, ts, "parse_error", "ERROR", "parser",
                        <<"error", "parse">>, "error")>>
     ELSE IF raw.type = "session_meta"
     THEN <<ShadowEvent(ctx, item, ts, "session_meta", "META", "session_meta",
                        <<"meta", "session">>, "info")>>
     ELSE IF raw.type = "turn_context"
     THEN <<ShadowEvent(ctx, item, ts, "turn_context", "META", "turn_context",
                        <<"meta", "turn">>, "info")>>
     ELSE IF raw.type = "event_msg" /\ raw.ptype = "agent_reasoning"
     THEN <<ShadowEvent(ctx, item, ts, "agent_reasoning", "REASONING", "event_msg",
                        <<"reasoning">>, "info")>>
     ELSE IF raw.type = "event_msg" /\ raw.ptype = "user_message"
     THEN <<ShadowEvent(ctx, item, ts, "user_message", "USER_MSG", "event_msg",
                        <<"user">>, "info")>>
     ELSE IF raw.type = "event_msg" /\ raw.ptype = "agent_message"
     THEN <<ShadowEvent(ctx, item, ts, "agent_message", "AGENT_MSG", "event_msg",
                        <<"agent">>, "info")>>
     ELSE IF raw.type = "event_msg" /\ raw.ptype = "token_count"
     THEN <<ShadowEvent(ctx, item, ts, "token_count", "META", "event_msg",
                        <<"meta", "token">>, "info")>>
     ELSE IF raw.type = "response_item" /\ raw.ptype = "function_call"
     THEN LET toolName == IF raw.name = "" THEN "unknown_tool" ELSE raw.name
              derivedTags == IF toolName = "shell_command"
                             THEN classifyShellCommand(raw.command) ELSE <<>>
          IN <<ShadowEvent(ctx, item, ts, <<"tool_call", toolName>>, "TOOL_CALL",
                           "response_item", tagifyToolName(toolName) \o derivedTags, "info")
               @@ [relatedCallId |-> raw.call_id]>>
     ELSE IF raw.type = "response_item" /\ raw.ptype = "function_call_output"
     THEN functionCallOutput(ctx, item, ts, raw)
     ELSE IF raw.type = "response_item" /\ raw.ptype = "reasoning"
     THEN IF summaryBlank(raw.summary) THEN <<>>
          ELSE <<ShadowEvent(ctx, item, ts, "reasoning_summary", "REASONING",
                             "response_item", <<"reasoning">>, "info")>>
     ELSE <<>>

(***************************************************************************)
(* State.  The p-variables are those of the parser on its own, driven by a *)
(* caller that commits every state poll returns; the others are the store, *)
(* its file system and its clock:                                          *)
(*   fs        content and modification time of each rollout file          *)
(*   clock     the time of the latest reading of the system clock          *)
(*   env       what the environment has done so far (writes, faults, the   *)
(*             files removed, the restarts and the progress that the       *)
(*             restarted store loaded, and what the latest clearSession    *)
(*             found: the ids it cleared, the sizes of the files, the      *)
(*             faults so far, and whether no poll was running and every    *)
(*             saved progress was valid)                                   *)
(*   watcher   whether the watcher is active                               *)
(*   run       where the poll of the flush batch and the poll of the warm  *)
(*             call stand: idle, waiting for fs.stat ("stat") or for the   *)
(*             read ("read"), with the call that polls (flush, warmSession *)
(*             or warmRolloutFile), the files it has still to poll and the *)
(*             locals of pollFileWithRetry                                 *)
(*   onDidAppendEvents  the payloads fired to the events-appended          *)
(*             listeners, in order                                         *)
(*   onDidChangeSessionEvents  the session keys fired to the               *)
(*             session-events listeners by the latest step                 *)
(* and the fields of ShadowCodexStore under their names.  Of the debug     *)
(* snapshot, lastPoll and lastError are kept.  An absent number            *)
(* (undefined) is -1.                                                      *)
(***************************************************************************)
VARIABLES pfile, pwrite, ppieces, pstate, ppc, pcur, plast, ptext, pyield, pnpolls, ptruncs

VARIABLES fs, clock, env, watcher, sessionsByKey, eventsBySessionKey, fileStates,
          dedupersBySession, pendingFiles, pendingFlushTimer, flushInProgress, persisted,
          debugSnapshot, onDidAppendEvents, onDidChangeSessionEvents, run,
          requestPersistSave, globalState, watchers

VARIABLES parsedLine, shadowEvents, visible, renderItems, emitSessions, eventDeduper

parserVars == <<pfile, pwrite, ppieces, pstate, ppc, pcur, plast, ptext, pyield, pnpolls, ptruncs>>

storeVars == <<fs, clock, env, watcher, sessionsByKey, eventsBySessionKey, fileStates,
               dedupersBySession, pendingFiles, pendingFlushTimer, flushInProgress, persisted,
               debugSnapshot, onDidAppendEvents, onDidChangeSessionEvents, run,
               requestPersistSave, globalState, watchers>>

pureVars == <<parsedLine, shadowEvents, visible, renderItems, emitSessions, eventDeduper>>

vars == <<parserVars, storeVars, pureVars>>

\* getOrCreateFileState's state for a file without persisted progress (store.ts:198)
InitialState(filePath) ==
  [filePath |-> filePath, byteOffset |-> 0, partialBuffer |-> <<>>, seq |-> 0,
   lastSize |-> -1, lastMtimeMs |-> -1]

PFilePath == "s1/rollout-a.jsonl"

(***************************************************************************)
(* What the writer of the parser's file appends, a piece at a time and     *)
(* any number of bytes of the piece at a time.                             *)
(***************************************************************************)
PPieces ==
  { <<"{", "M", "1", "}", "LF">>,
    <<"x", "LF">>,
    <<"{", "U", "C3", "A9", "}", "CR", "LF">>,
    <<"SP", "LF">> }

NoPoll == [prev |-> InitialState(PFilePath), size |-> 0, from |-> 0, bytes |-> <<>>, text |-> <<>>,
           res |-> [events |-> <<>>, state |-> InitialState(PFilePath), truncated |-> FALSE]]

PInit ==
  /\ pfile = <<>>
  /\ pwrite = <<>>
  /\ ppieces = 0
  /\ pstate = InitialState(PFilePath)
  /\ ppc = "idle"
  /\ pcur = pollStat(InitialState(PFilePath), [size |-> 0, mtimeMs |-> 0])
  /\ plast = NoPoll
  /\ ptext = <<>>
  /\ pyield = <<>>
  /\ pnpolls = 0
  /\ ptruncs = 0

PWriterPick(piece) ==
  /\ pwrite = <<>>
  /\ ppieces < MaxPieces
  /\ pwrite' = piece
  /\ ppieces' = ppieces + 1
  /\ UNCHANGED <<pfile, pstate, ppc, pcur, plast, ptext, pyield, pnpolls, ptruncs>>
  /\ UNCHANGED <<storeVars, pureVars>>

PWriterWrite(k) ==
  /\ k \in 1..Len(pwrite)
  /\ pfile' = pfile \o SubSeq(pwrite, 1, k)
  /\ pwrite' = SubSeq(pwrite, k + 1, Len(pwrite))
  /\ UNCHANGED <<ppieces, pstate, ppc, pcur, plast, ptext, pyield, pnpolls, ptruncs>>
  /\ UNCHANGED <<storeVars, pureVars>>

\* the file is cut to one of its proper prefixes (truncated, or replaced on rotation)
PTruncate(n) ==
  /\ n \in 0..(Len(pfile) - 1)
  /\ ptruncs < MaxTruncs
  /\ pfile' = SubSeq(pfile, 1, n)
  /\ pwrite' = <<>>
  /\ ptruncs' = ptruncs + 1
  /\ UNCHANGED <<ppieces, pstate, ppc, pcur, plast, ptext, pyield, pnpolls>>
  /\ UNCHANGED <<storeVars, pureVars>>

\* the caller takes the result: its resume state, and the record of what was read
PTake(prev, size, from, bytes, text, res) ==
  /\ pstate' = res.state
  /\ plast' = [prev |-> prev, size |-> size, from |-> from, bytes |-> bytes, text |-> text,
               res |-> res]
  /\ ptext' = IF res.truncated THEN text ELSE ptext \o text
  /\ pyield' = IF res.truncated THEN res.events ELSE pyield \o res.events
  /\ pnpolls' = IF res.truncated THEN 1 ELSE pnpolls + 1
  /\ ppc' = "idle"

\* poll up to the answer of fs.stat; a file that has not grown ends the call
PPollStat ==
  /\ ppc = "idle"
  /\ pnpolls < MaxPolls
  /\ LET s == pollStat(pstate, [size |-> Len(pfile), mtimeMs |-> 0])
     IN /\ pcur' = s
        /\ IF s.newBytes <= 0
           THEN PTake(pstate, Len(pfile), s.state.byteOffset, <<>>, <<>>,
                      [events |-> <<>>, state |-> s.state, truncated |-> s.truncated])
           ELSE /\ ppc' = "read"
                /\ UNCHANGED <<pstate, plast, ptext, pyield, pnpolls>>
  /\ UNCHANGED <<pfile, pwrite, ppieces, ptruncs>>
  /\ UNCHANGED <<storeVars, pureVars>>

\* the read loop and the rest of poll, on the file as it is when it is read
PPollRead ==
  /\ ppc = "read"
  /\ LET read == readChunks(pfile, pcur.state.byteOffset, pcur.newBytes)
         bytes == SubSeq(pfile, pcur.state.byteOffset + 1, read.offset)
     IN PTake(pstate, pcur.state.lastSize, pcur.state.byteOffset, bytes, read.text,
              pollFinish(pcur.state, pcur.truncated, read, 1))
  /\ UNCHANGED <<pfile, pwrite, ppieces, pcur, ptruncs>>
  /\ UNCHANGED <<storeVars, pureVars>>

(***************************************************************************)
(* The store (store.ts).  Maps are functions on the set of their keys.     *)
(***************************************************************************)
EmptyMap == [k \in {} |-> 0]
Has(m, k) == k \in DOMAIN m
MapSet(m, k, v) == [x \in (DOMAIN m) \cup {k} |-> IF x = k THEN v ELSE m[x]]
MapDelete(m, k) == [x \in (DOMAIN m) \ {k} |-> m[x]]

Range(q) == {q[i] : i \in 1..Len(q)}

\* the rollout files of the one session directory, as scanSessions sorts them
FileList == <<"s1/rollout-a.jsonl", "s1/rollout-b.jsonl">>
Files == Range(FileList)
\* the rollout file the agent appends to, and the content of the older one
ActiveFile == FileList[1]
OlderContent == <<"{", "U", "2", "}", "LF">>
ActiveContent == <<"{", "M", "1", "}", "LF">>
\* a path the watcher's patterns do not match
OtherPath == "s1/notes.txt"
Paths == Files \cup {OtherPath}

\* path.dirname
dirname(f) == "s1"
\* /rollout-.*\.jsonl$/i.test(filePath), store.ts:243 and 290
IsRolloutFile(f) == f \in Files

Procs == {"flush", "warm"}

\* what is appended to a file of the store in one write
Pieces ==
  { <<"{", "M", "2", "}", "LF">>,
    <<"x", "LF">> }

\* new Date(ms).toISOString()
isoOfMs(ms) == ms

Stat(f) == [size |-> Len(fs[f].content), mtimeMs |-> fs[f].mtimeMs]

NoStat == [size |-> 0, mtimeMs |-> 0]
NoCur == [truncated |-> FALSE, state |-> InitialState(""), newBytes |-> 0]
IdleRun == [pc |-> "idle", call |-> "", queue |-> <<>>, attempt |-> 0, delayMs |-> 0,
            stat |-> NoStat, prev |-> InitialState(""), cur |-> NoCur]

NoLastPoll == [filePath |-> "", bytesRead |-> 0, parsed |-> 0, extracted |-> 0,
               truncated |-> FALSE, parseErrors |-> 0]

(***************************************************************************)
(* scanSessions (locator.ts): one session for each directory that holds    *)
(* rollout files, its files sorted and its updatedAt the newest mtime.     *)
(***************************************************************************)
RECURSIVE MaxMtime(_)
MaxMtime(files) ==
  IF files = <<>> THEN 0 ELSE Max(fs[Head(files)].mtimeMs, MaxMtime(Tail(files)))

Exists(f) == f \notin env.gone

\* a scan that keeps the updatedAt of the sessions the store knows when it is later
scanSessions_merge ==
  LET rolloutFiles == SelectSeq(FileList, Exists)
  IN [key \in {dirname(f) : f \in Range(rolloutFiles)} |->
        [sessionKey |-> key, rolloutFiles |-> rolloutFiles,
         updatedAt |-> IF Has(sessionsByKey, key)
                       THEN Max(sessionsByKey[key].updatedAt, MaxMtime(rolloutFiles))
                       ELSE MaxMtime(rolloutFiles)]]

scanSessions ==
  LET rolloutFiles == SelectSeq(FileList, Exists)
  IN [key \in {dirname(f) : f \in Range(rolloutFiles)} |->
        [sessionKey |-> key, rolloutFiles |-> rolloutFiles,
         updatedAt |-> IF MaxMtime(rolloutFiles) # 0 THEN isoOfMs(MaxMtime(rolloutFiles))
                       ELSE 0]]

(***************************************************************************)
(* EventDeduper, store.ts:49-71.                                           *)
(***************************************************************************)
NewEventDeduper(max) == [max |-> max, queue |-> <<>>, set |-> {}]

deduperHas_never(d, id) == FALSE

deduperHas(d, id) == id \in d.set

RECURSIVE deduperEvict(_)
deduperEvict(d) ==
  IF Len(d.queue) > d.max
  THEN deduperEvict([d EXCEPT !.queue = Tail(d.queue), !.set = d.set \ {Head(d.queue)}])
  ELSE d

\* an add that moves an id that is present to the newest position
deduperAdd_moveToNewest(d, id) ==
  IF id \in d.set
  THEN [d EXCEPT !.queue = Append(SelectSeq(d.queue, LAMBDA x : x # id), id)]
  ELSE deduperEvict([d EXCEPT !.set = d.set \cup {id}, !.queue = Append(d.queue, id)])

deduperAdd(d, id) ==
  IF id \in d.set THEN d
  ELSE deduperEvict([d EXCEPT !.set = d.set \cup {id}, !.queue = Append(d.queue, id)])

\* getOrCreateDeduper, store.ts:449-455 (new EventDeduper(50_000))
getOrCreateDeduper(dedupers, sessionKey) ==
  IF Has(dedupers, sessionKey) THEN dedupers[sessionKey] ELSE NewEventDeduper(DeduperMax)

(***************************************************************************)
(* pollFileWithRetry, store.ts:315-325: the events of the records that the *)
(* deduper does not hold yet.                                              *)
(***************************************************************************)
RECURSIVE admitEach(_, _, _)
admitEach(extracted, deduper, out) ==
  IF extracted = <<>> THEN [deduper |-> deduper, out |-> out]
  ELSE IF deduperHas(deduper, Head(extracted).id)
       THEN admitEach(Tail(extracted), deduper, out)
       ELSE admitEach(Tail(extracted), deduperAdd(deduper, Head(extracted).id),
                      Append(out, Head(extracted)))

RECURSIVE dedupLoop(_, _, _, _)
dedupLoop(ctx, events, deduper, out) ==
  IF events = <<>> THEN [deduper |-> deduper, out |-> out]
  ELSE LET a == admitEach(extractShadowEvents(ctx, Head(events)), deduper, out)
       IN dedupLoop(ctx, Tail(events), a.deduper, a.out)

(***************************************************************************)
(* list.sort((a, b) => (a.ts ?? "").localeCompare(b.ts ?? "") || a.seq -   *)
(* b.seq), store.ts:355; Array.prototype.sort is stable.                   *)
(***************************************************************************)
compareEvents_tsOnly(a, b) ==
  IF a.ts < b.ts THEN -1 ELSE IF a.ts > b.ts THEN 1 ELSE 0

compareEvents(a, b) ==
  IF a.ts < b.ts THEN -1 ELSE IF a.ts > b.ts THEN 1 ELSE a.seq - b.seq

RECURSIVE insertSorted(_, _)
insertSorted(list, e) ==
  IF list = <<>> THEN <<e>>
  ELSE IF compareEvents(e, Head(list)) < 0 THEN <<e>> \o list
       ELSE <<Head(list)>> \o insertSorted(Tail(list), e)

\* a sort that keeps the newest event only
sortEvents_keepLast(list) ==
  IF list = <<>> THEN <<>> ELSE <<list[Len(list)]>>

RECURSIVE sortEvents(_)
sortEvents(list) ==
  IF list = <<>> THEN <<>>
  ELSE insertSorted(sortEvents(SubSeq(list, 1, Len(list) - 1)), list[Len(list)])

\* store.ts:363
RECURSIVE newestEventTs(_, _)
newestEventTs(out, acc) ==
  IF out = <<>> THEN acc
  ELSE newestEventTs(Tail(out),
                     IF acc = 0 \/ (Head(out).ts # 0 /\ Head(out).ts > acc)
                     THEN Head(out).ts ELSE acc)

\* updateSessionUpdatedAt, store.ts:179-189
updateSessionUpdatedAt(sessions, sessionKey, iso) ==
  IF iso = 0 \/ ~Has(sessions, sessionKey) THEN [sessions |-> sessions, changed |-> FALSE]
  ELSE IF sessions[sessionKey].updatedAt = 0 \/ iso > sessions[sessionKey].updatedAt
       THEN [sessions |-> [sessions EXCEPT ![sessionKey].updatedAt = iso], changed |-> TRUE]
       ELSE [sessions |-> sessions, changed |-> FALSE]

\* a validation that looks at the size only
validatePersistedProgress_sizeOnly(progress, filePath, stat) ==
  IF ~Has(progress, filePath) THEN TRUE
  ELSE IF stat.size < progress[filePath].byteOffset THEN FALSE
  ELSE TRUE

\* The chokidar watchers and the runs of startWatcher, store.ts:211-240, where runs
\* overlap: the watcher that this.watcher holds (0 for undefined), the watchers that
\* have been created and not closed, the number created, where the run of start and a
\* run of reloadAfterConfigChange stand, and the watchers that have called
\* enqueueFileChange for the latest change of a file.  The variable watcher says whether
\* a watcher is active; start and stop are the store seen with one run at a time.
NewWatchers ==
  [handle |-> 0, active |-> {}, created |-> 0,
   runs |-> [r \in {"start", "reload"} |-> "idle"], enqueuedBy |-> {}]

\* What globalState holds under PERSIST_KEY (store.ts:47): nothing, or a snapshot with
\* a version and, if it has one, the fileProgress map (model.ts:114-118).
NoSnapshot ==
  [stored |-> FALSE, version |-> 0, hasFileProgress |-> FALSE, fileProgress |-> EmptyMap]

Snapshot(progress) ==
  [stored |-> TRUE, version |-> 1, hasFileProgress |-> TRUE, fileProgress |-> progress]

\* a load that takes the fileProgress of any snapshot that is stored
loadPersisted_anyVersion(raw) ==
  IF raw.stored THEN raw.fileProgress ELSE EmptyMap

\* loadPersisted, store.ts:457-461: the fileProgress the store starts with
loadPersisted(raw) ==
  IF raw.stored /\ raw.version = 1 /\ raw.hasFileProgress THEN raw.fileProgress
  ELSE EmptyMap

\* a debounce that sets a timeout without clearing the one that is pending
debounce_noClear(timers) == timers + 1

\* debounce, utils.ts:70-76, on the number of timeouts that are pending: the pending
\* one is cleared, and one is set
debounce(timers) == (IF timers > 0 THEN timers - 1 ELSE timers) + 1

\* validatePersistedProgress, store.ts:203-209
validatePersistedProgress(progress, filePath, stat) ==
  IF ~Has(progress, filePath) THEN TRUE
  ELSE IF stat.size < progress[filePath].byteOffset THEN FALSE
  ELSE IF stat.mtimeMs < progress[filePath].lastMtimeMs THEN FALSE
  ELSE TRUE

\* a new state that resumes at the saved offset itself
getOrCreateFileState_noRewind(states, progress, filePath) ==
  IF Has(states, filePath) THEN states
  ELSE LET has == Has(progress, filePath)
           offset == IF has THEN progress[filePath].byteOffset ELSE 0
       IN MapSet(states, filePath,
                 [filePath |-> filePath, byteOffset |-> offset, partialBuffer |-> <<>>,
                  seq |-> 0,
                  lastSize |-> IF has THEN progress[filePath].lastSize ELSE -1,
                  lastMtimeMs |-> IF has THEN progress[filePath].lastMtimeMs ELSE -1])

\* getOrCreateFileState, store.ts:191-201: the map with the state in it
getOrCreateFileState(states, progress, filePath) ==
  IF Has(states, filePath) THEN states
  ELSE LET has == Has(progress, filePath)
           offset == IF has THEN Max(0, progress[filePath].byteOffset - rewind) ELSE 0
       IN MapSet(states, filePath,
                 [filePath |-> filePath, byteOffset |-> offset, partialBuffer |-> <<>>,
                  seq |-> 0,
                  lastSize |-> IF has THEN progress[filePath].lastSize ELSE -1,
                  lastMtimeMs |-> IF has THEN progress[filePath].lastMtimeMs ELSE -1])

(***************************************************************************)
(* Init: the store as its constructor leaves it; nothing has been          *)
(* persisted.  The session directory holds an older rollout file, which is *)
(* complete, and the rollout file the agent is writing, one line long.     *)
(***************************************************************************)
StoreInit ==
  /\ fs = [f \in Files |-> [content |-> IF f = ActiveFile THEN ActiveContent
                                         ELSE OlderContent,
                             mtimeMs |-> 2]]
  /\ clock = 2
  /\ env = [writes |-> 0, faults |-> 0, truncs |-> 0, gone |-> {}, restarts |-> 0,
            loaded |-> EmptyMap,
            cleared |-> [done |-> FALSE, key |-> "", ids |-> {}, sizes |-> [f \in Files |-> 0],
                         faults |-> 0, settled |-> FALSE]]
  /\ watcher = FALSE
  /\ watchers = NewWatchers
  /\ sessionsByKey = EmptyMap
  /\ eventsBySessionKey = EmptyMap
  /\ fileStates = EmptyMap
  /\ dedupersBySession = EmptyMap
  /\ pendingFiles = <<>>
  /\ pendingFlushTimer = 0
  /\ flushInProgress = FALSE
  /\ globalState = NoSnapshot
  /\ persisted = loadPersisted(globalState)
  /\ requestPersistSave = 0
  /\ debugSnapshot = [lastPoll |-> NoLastPoll, lastError |-> FALSE]
  /\ onDidAppendEvents = <<>>
  /\ onDidChangeSessionEvents = <<>>
  /\ run = [p \in Procs |-> IdleRun]

(***************************************************************************)
(* The file system and the clock.                                          *)
(***************************************************************************)
\* the instants at which the system clock can be read next: time does not go back
Later == clock..Min(clock + 1, MaxTime)

EnvStep ==
  /\ onDidChangeSessionEvents' = <<>>
  /\ UNCHANGED <<parserVars, pureVars, watcher, watchers, sessionsByKey, eventsBySessionKey, fileStates,
              dedupersBySession, pendingFiles, pendingFlushTimer, flushInProgress,
              persisted, requestPersistSave, globalState, debugSnapshot, onDidAppendEvents, run>>

\* the agent appends to a rollout file at time t
WriteFile(f, piece, t) ==
  /\ env.writes < MaxAppends
  /\ clock' = t
  /\ fs' = [fs EXCEPT ![f] = [content |-> @.content \o piece, mtimeMs |-> t]]
  /\ env' = [env EXCEPT !.writes = @ + 1]
  /\ EnvStep

\* a rollout file is emptied (truncated, or replaced by a new file)
TruncateFile(f, t) ==
  /\ env.faults < MaxFaults
  /\ fs[f].content # <<>>
  /\ clock' = t
  /\ fs' = [fs EXCEPT ![f] = [content |-> <<>>, mtimeMs |-> t]]
  /\ env' = [env EXCEPT !.faults = @ + 1, !.truncs = @ + 1]
  /\ EnvStep

\* the modification time of a rollout file is set back
TouchBack(f, m) ==
  /\ env.faults < MaxFaults
  /\ m < fs[f].mtimeMs
  /\ UNCHANGED clock
  /\ fs' = [fs EXCEPT ![f].mtimeMs = m]
  /\ env' = [env EXCEPT !.faults = @ + 1]
  /\ EnvStep

\* the agent appends a part of a line, or the rest of one, to a rollout file
Fragments == {<<"{", "M", "2", "}">>, <<"{", "M">>, <<"2", "}", "LF">>, <<"LF">>}

AppendFragment(f, piece, t) ==
  /\ env.writes < MaxFragments
  /\ clock' = t
  /\ fs' = [fs EXCEPT ![f] = [content |-> @.content \o piece, mtimeMs |-> t]]
  /\ env' = [env EXCEPT !.writes = @ + 1]
  /\ EnvStep

\* a rollout file is removed: from now on fs.stat and fs.open fail for it
RemoveFile(f) ==
  /\ Exists(f)
  /\ UNCHANGED <<clock, fs>>
  /\ env' = [env EXCEPT !.gone = @ \cup {f}]
  /\ EnvStep

(***************************************************************************)
(* start, rescanSessions, the watcher's events and the flush timer.        *)
(***************************************************************************)
SchedStep ==
  /\ onDidChangeSessionEvents' = <<>>
  /\ UNCHANGED <<parserVars, pureVars, fs, clock, env, eventsBySessionKey, fileStates, dedupersBySession, persisted,
              requestPersistSave, globalState, watchers,
              debugSnapshot, onDidAppendEvents>>

\* start, store.ts:153-156
start ==
  /\ ~watcher
  /\ sessionsByKey' = scanSessions
  /\ watcher' = TRUE
  /\ UNCHANGED <<pendingFiles, pendingFlushTimer, flushInProgress, run>>
  /\ SchedStep

\* stop, store.ts:158-163: the watcher is closed, and nothing else of the store changes
stop ==
  /\ watcher' = FALSE
  /\ UNCHANGED <<sessionsByKey, pendingFiles, pendingFlushTimer, flushInProgress, run>>
  /\ SchedStep

\* rescanSessions, store.ts:165-173
rescanSessions ==
  /\ sessionsByKey' = scanSessions
  /\ UNCHANGED <<watcher, watchers, pendingFiles, pendingFlushTimer, flushInProgress, run>>
  /\ SchedStep

setAdd(q, x) == IF x \in Range(q) THEN q ELSE Append(q, x)

\* the timeout that is pending is not cleared before the new one is set
scheduleFlushPendingFiles_noClear(timers) == timers + 1

\* scheduleFlushPendingFiles, store.ts:254-261, on the number of flush timeouts that
\* are pending: the one whose handle the store holds is cleared, and one is set
scheduleFlushPendingFiles(timers) == (IF timers > 0 THEN timers - 1 ELSE timers) + 1

\* enqueueFileChange, store.ts:242-252
enqueueFileChange(filePath) ==
  /\ watcher
  /\ IF ~IsRolloutFile(filePath)
     THEN UNCHANGED <<pendingFiles, pendingFlushTimer>>
     ELSE /\ pendingFiles' = setAdd(pendingFiles, filePath)
          /\ pendingFlushTimer' = scheduleFlushPendingFiles(pendingFlushTimer)
  /\ UNCHANGED <<watcher, watchers, sessionsByKey, flushInProgress, run>>
  /\ SchedStep

\* startWatcher up to its awaits, store.ts:211-214, in the run of start (store.ts:155,
\* once, at activation) or of reloadAfterConfigChange (store.ts:126, at a change of
\* the configuration, for which the extension listens once it has called start): the
\* watcher that this.watcher holds is closed, and the run waits for close and fs.stat
startWatcherBegin(r) ==
  /\ watchers.runs[r] = "idle"
  /\ r = "reload" => watchers.runs["start"] # "idle"
  /\ watchers.created < MaxWatchers
  /\ watchers' = [watchers EXCEPT !.runs[r] = "await",
                                  !.active = @ \ {watchers.handle},
                                  !.enqueuedBy = {}]
  /\ watcher' = (watchers'.active # {})
  /\ onDidChangeSessionEvents' = <<>>
  /\ UNCHANGED <<fs, clock, env, sessionsByKey, eventsBySessionKey, fileStates,
                 dedupersBySession, pendingFiles, pendingFlushTimer, flushInProgress,
                 persisted, requestPersistSave, globalState, debugSnapshot,
                 onDidAppendEvents, run, parserVars, pureVars>>

\* startWatcher after its awaits, store.ts:215-239: without codexHome this.watcher
\* becomes undefined, and otherwise a new watcher that is active
startWatcherEnd(r, found) ==
  /\ watchers.runs[r] = "await"
  /\ watchers' = [watchers EXCEPT
                    !.runs[r] = IF r = "start" THEN "done" ELSE "idle",
                    !.handle = IF found THEN watchers.created + 1 ELSE 0,
                    !.active = IF found THEN @ \cup {watchers.created + 1} ELSE @,
                    !.created = IF found THEN @ + 1 ELSE @,
                    !.enqueuedBy = {}]
  /\ watcher' = (watchers'.active # {})
  /\ onDidChangeSessionEvents' = <<>>
  /\ UNCHANGED <<fs, clock, env, sessionsByKey, eventsBySessionKey, fileStates,
                 dedupersBySession, pendingFiles, pendingFlushTimer, flushInProgress,
                 persisted, requestPersistSave, globalState, debugSnapshot,
                 onDidAppendEvents, run, parserVars, pureVars>>

\* A file changes: every watcher that is active calls enqueueFileChange for it
\* (store.ts:232-233, 242-252); the calls after the first find the file pending and
\* replace the flush timeout by another.
watcherEvent(filePath) ==
  /\ watchers.active # {}
  /\ watchers' = [watchers EXCEPT !.enqueuedBy = watchers.active]
  /\ IF ~IsRolloutFile(filePath)
     THEN UNCHANGED <<pendingFiles, pendingFlushTimer>>
     ELSE /\ pendingFiles' = setAdd(pendingFiles, filePath)
          /\ pendingFlushTimer' = scheduleFlushPendingFiles(pendingFlushTimer)
  /\ onDidChangeSessionEvents' = <<>>
  /\ UNCHANGED <<fs, clock, env, watcher, sessionsByKey, eventsBySessionKey, fileStates,
                 dedupersBySession, flushInProgress, persisted, requestPersistSave,
                 globalState, debugSnapshot, onDidAppendEvents, run, parserVars, pureVars>>

\* the first step of onFileChanged (flush) or of a warm call for the file at the
\* head of the queue: up to the first await
BeginFile(call, queue, sessions) ==
  [IdleRun EXCEPT !.call = call, !.queue = queue,
                  !.pc = IF call = "flush" /\ ~Has(sessions, dirname(Head(queue)))
                         THEN "rescan" ELSE "stat"]

\* a flush that does not look at flushInProgress
flushPendingFiles_noFlag ==
  /\ pendingFlushTimer > 0
  /\ pendingFiles' = <<>>
  /\ pendingFlushTimer' = pendingFlushTimer - 1
  /\ IF pendingFiles = <<>>
     THEN UNCHANGED <<flushInProgress, run>>
     ELSE /\ flushInProgress' = TRUE
          /\ run' = [run EXCEPT !["flush"] = BeginFile("flush", pendingFiles, sessionsByKey)]
  /\ UNCHANGED <<watcher, watchers, sessionsByKey>>
  /\ SchedStep

\* a flush that takes the pending files before it looks at flushInProgress
flushPendingFiles_clearFirst ==
  /\ pendingFlushTimer > 0
  /\ pendingFiles' = <<>>
  /\ IF flushInProgress
     THEN /\ pendingFlushTimer' = scheduleFlushPendingFiles(pendingFlushTimer - 1)
          /\ UNCHANGED <<flushInProgress, run>>
     ELSE /\ pendingFlushTimer' = pendingFlushTimer - 1
          /\ IF pendingFiles = <<>>
             THEN UNCHANGED <<flushInProgress, run>>
             ELSE /\ flushInProgress' = TRUE
                  /\ run' = [run EXCEPT !["flush"] = BeginFile("flush", pendingFiles, sessionsByKey)]
  /\ UNCHANGED <<watcher, watchers, sessionsByKey>>
  /\ SchedStep

\* the flush timer fires (store.ts:257-259): flushPendingFiles, store.ts:263-280
flushPendingFiles ==
  /\ pendingFlushTimer > 0
  /\ IF flushInProgress
     THEN /\ pendingFlushTimer' = scheduleFlushPendingFiles(pendingFlushTimer - 1)
          /\ UNCHANGED <<pendingFiles, flushInProgress, run>>
     ELSE /\ pendingFiles' = <<>>
          /\ pendingFlushTimer' = pendingFlushTimer - 1
          /\ IF pendingFiles = <<>>
             THEN UNCHANGED <<flushInProgress, run>>
             ELSE /\ flushInProgress' = TRUE
                  /\ run' = [run EXCEPT !["flush"] = BeginFile("flush", pendingFiles, sessionsByKey)]
  /\ UNCHANGED <<watcher, watchers, sessionsByKey>>
  /\ SchedStep

\* warmSession, store.ts:387-394, up to its first poll
warmSession(sessionKey) ==
  /\ run["warm"].pc = "idle"
  /\ IF ~Has(sessionsByKey, sessionKey)
     THEN UNCHANGED run
     ELSE run' = [run EXCEPT !["warm"] = BeginFile("warmSession",
                                                    sessionsByKey[sessionKey].rolloutFiles,
                                                    sessionsByKey)]
  /\ UNCHANGED <<watcher, watchers, sessionsByKey, pendingFiles, pendingFlushTimer, flushInProgress>>
  /\ SchedStep

\* warmRolloutFile, store.ts:396-409, up to its poll
warmRolloutFile(filePath) ==
  /\ run["warm"].pc = "idle"
  /\ sessionsByKey' =
       IF Has(sessionsByKey, dirname(filePath)) THEN sessionsByKey
       ELSE MapSet(sessionsByKey, dirname(filePath),
                   [sessionKey |-> dirname(filePath), rolloutFiles |-> <<filePath>>,
                    updatedAt |-> IF Exists(filePath) THEN isoOfMs(fs[filePath].mtimeMs)
                                 ELSE 0])
  /\ run' = [run EXCEPT !["warm"] = BeginFile("warmRolloutFile", <<filePath>>,
                                                sessionsByKey')]
  /\ UNCHANGED <<watcher, watchers, pendingFiles, pendingFlushTimer, flushInProgress>>
  /\ SchedStep

(***************************************************************************)
(* What follows a poll that has returned to its caller: the next file of   *)
(* the flush batch or of the warm call, or the end of the batch            *)
(* (store.ts:281-286) or of the call.                                      *)
(***************************************************************************)
\* the notification fired after every file of a warm call too
fireChanged_everyFile(p, queue) == <<dirname(Head(queue))>>

\* onDidChangeSessionEventsEmitter.fire: onFileChanged fires after every file
\* (store.ts:298), a warm call after its last file (store.ts:393, 408)
fireChanged(p, queue) ==
  IF p = "flush" \/ Tail(queue) = <<>> THEN <<dirname(Head(queue))>> ELSE <<>>

PollReturn_abortBatch(p, sessions) ==
  /\ run' = [run EXCEPT ![p] = IdleRun]
  /\ onDidChangeSessionEvents' = fireChanged(p, run[p].queue)
  /\ IF p = "flush"
     THEN /\ flushInProgress' = FALSE
          /\ pendingFlushTimer' = IF pendingFiles # <<>>
                                  THEN scheduleFlushPendingFiles(pendingFlushTimer)
                                  ELSE pendingFlushTimer
     ELSE UNCHANGED <<flushInProgress, pendingFlushTimer>>

PollReturn(p, sessions) ==
  LET rest == Tail(run[p].queue)
  IN /\ run' = [run EXCEPT ![p] = IF rest = <<>> THEN IdleRun
                                   ELSE BeginFile(run[p].call, rest, sessions)]
     /\ onDidChangeSessionEvents' = fireChanged(p, run[p].queue)
     /\ IF p = "flush" /\ rest = <<>>
        THEN /\ flushInProgress' = FALSE
             /\ pendingFlushTimer' = IF pendingFiles # <<>>
                                  THEN scheduleFlushPendingFiles(pendingFlushTimer)
                                  ELSE pendingFlushTimer
        ELSE UNCHANGED <<flushInProgress, pendingFlushTimer>>

\* onFileChanged's rescanSessions for a file of an unknown session, store.ts:293-295
onFileChangedRescan ==
  /\ run["flush"].pc = "rescan"
  /\ sessionsByKey' = scanSessions
  /\ run' = [run EXCEPT !["flush"].pc = "stat"]
  /\ UNCHANGED <<watcher, watchers, pendingFiles, pendingFlushTimer, flushInProgress>>
  /\ SchedStep

\* a wait that doubles without the cap
delayMs_noCap(attempt) == 200 * 2^attempt

\* store.ts:381: the wait before the retry that follows the failed attempt
delayMs(attempt) == Min(5000, 200 * 2^attempt)

\* a catch that retries whatever the number of the attempt
Catch_retryAlways(p) ==
  /\ run' = [run EXCEPT ![p] = [IdleRun EXCEPT !.call = run[p].call,
                                                !.queue = run[p].queue, !.pc = "stat",
                                                !.attempt = run[p].attempt + 1,
                                                !.delayMs = delayMs(run[p].attempt)]]
  /\ onDidChangeSessionEvents' = <<>>
  /\ UNCHANGED <<debugSnapshot, flushInProgress, pendingFlushTimer>>
  /\ UNCHANGED <<fs, clock, watcher, watchers, sessionsByKey, eventsBySessionKey, fileStates,
                 dedupersBySession, pendingFiles, persisted, requestPersistSave, globalState,
                 onDidAppendEvents, parserVars, pureVars>>

\* the catch of pollFileWithRetry, store.ts:374-384: an I/O call of the attempt failed
Catch(p) ==
  /\ IF run[p].attempt >= maxAttempts
     THEN /\ debugSnapshot' = [debugSnapshot EXCEPT !.lastError = TRUE]
          /\ PollReturn(p, sessionsByKey)
     ELSE /\ run' = [run EXCEPT ![p] = [IdleRun EXCEPT !.call = run[p].call,
                                                       !.queue = run[p].queue, !.pc = "stat",
                                                       !.attempt = run[p].attempt + 1,
                                                       !.delayMs = delayMs(run[p].attempt)]]
          /\ onDidChangeSessionEvents' = <<>>
          /\ UNCHANGED <<debugSnapshot, flushInProgress, pendingFlushTimer>>
  /\ UNCHANGED <<fs, clock, watcher, watchers, sessionsByKey, eventsBySessionKey, fileStates,
                 dedupersBySession, pendingFiles, persisted, requestPersistSave, globalState,
                 onDidAppendEvents, parserVars, pureVars>>

\* an I/O call of the attempt fails although the file is there
PollFail(p) ==
  /\ run[p].pc \in {"stat", "read"}
  /\ env.faults < MaxFaults
  /\ env' = [env EXCEPT !.faults = @ + 1]
  /\ Catch(p)

\* fs.stat or fs.open fails because the file is gone
PollGone(p) ==
  /\ run[p].pc \in {"stat", "read"}
  /\ ~Exists(Head(run[p].queue))
  /\ UNCHANGED env
  /\ Catch(p)

\* store.ts:352-361: onDidAppendEventsEmitter.fire, only for a poll that appended
fireAppended_always(fired, out) == Append(fired, out)

fireAppended(fired, out) == IF out # <<>> THEN Append(fired, out) ELSE fired

\* store.ts:304-312: what the attempt that finds stat makes of the persisted progress
\* and of the resume states before it calls the parser
checkedProgress(filePath, stat) ==
  IF validatePersistedProgress(persisted, filePath, stat) THEN persisted
  ELSE MapSet(persisted, filePath,
              [byteOffset |-> 0, lastSize |-> stat.size, lastMtimeMs |-> stat.mtimeMs])

\* the resume state changed in place by the parser: lastSize and lastMtimeMs of the
\* state in the map follow the stat of the attempt
checkedStates_inPlace(filePath, stat) ==
  LET states == getOrCreateFileState(IF validatePersistedProgress(persisted, filePath, stat)
                                     THEN fileStates ELSE MapDelete(fileStates, filePath),
                                     checkedProgress(filePath, stat), filePath)
  IN MapSet(states, filePath, pollStat(states[filePath], stat).state)

checkedStates(filePath, stat) ==
  getOrCreateFileState(IF validatePersistedProgress(persisted, filePath, stat)
                       THEN fileStates ELSE MapDelete(fileStates, filePath),
                       checkedProgress(filePath, stat), filePath)

\* store.ts:313-373: parser.poll has returned res to the attempt that took stat and
\* prev; states and progress are the store's maps as the attempt finds them
Commit(p, res, stat, prev, states, progress) ==
  LET filePath == Head(run[p].queue)
      sessionKey == dirname(filePath)
      d == dedupLoop([sessionKey |-> sessionKey, filePath |-> filePath], res.events,
                     getOrCreateDeduper(dedupersBySession, sessionKey), <<>>)
      out == d.out
      parseErrors == Cardinality({i \in 1..Len(res.events) :
                                    res.events[i].raw.type = "parse_error"})
      list == IF Has(eventsBySessionKey, sessionKey) THEN eventsBySessionKey[sessionKey]
              ELSE <<>>
      newest == newestEventTs(out, 0)
      upd == updateSessionUpdatedAt(sessionsByKey, sessionKey,
                                    IF newest # 0 THEN newest ELSE isoOfMs(stat.mtimeMs))
  IN /\ fileStates' = MapSet(states, filePath, res.state)
     /\ dedupersBySession' = MapSet(dedupersBySession, sessionKey, d.deduper)
     /\ eventsBySessionKey' =
          IF out # <<>> THEN MapSet(eventsBySessionKey, sessionKey, sortEvents(list \o out))
          ELSE eventsBySessionKey
     /\ onDidAppendEvents' = fireAppended(onDidAppendEvents, out)
     /\ debugSnapshot' =
          [debugSnapshot EXCEPT
             !.lastPoll = [filePath |-> filePath,
                           bytesRead |-> Max(0, res.state.byteOffset - prev.byteOffset),
                           parsed |-> Len(res.events), extracted |-> Len(out),
                           truncated |-> res.truncated, parseErrors |-> parseErrors]]
     /\ sessionsByKey' = upd.sessions
     /\ persisted' = MapSet(progress, filePath,
                            [byteOffset |-> res.state.byteOffset,
                             lastSize |-> res.state.lastSize,
                             lastMtimeMs |-> res.state.lastMtimeMs])
     /\ requestPersistSave' = debounce(requestPersistSave)
     /\ UNCHANGED globalState
     /\ PollReturn(p, upd.sessions)

\* store.ts:304-313 and parser.ts:21-36: fs.stat has answered the store and then the
\* parser, both with the file as it is now; without new bytes the poll returns at once
PollStatDone(p) ==
  /\ run[p].pc = "stat"
  /\ Exists(Head(run[p].queue))
  /\ LET filePath == Head(run[p].queue)
         stat == Stat(filePath)
         progress == checkedProgress(filePath, stat)
         states == checkedStates(filePath, stat)
         prev == states[filePath]
         s == pollStat(prev, stat)
     IN IF s.newBytes <= 0
        THEN Commit(p, [events |-> <<>>, state |-> s.state, truncated |-> s.truncated],
                    stat, prev, states, progress)
        ELSE /\ persisted' = progress
             /\ fileStates' = states
             /\ run' = [run EXCEPT ![p].pc = "read", ![p].stat = stat, ![p].prev = prev,
                                   ![p].cur = s]
             /\ onDidChangeSessionEvents' = <<>>
             /\ UNCHANGED <<sessionsByKey, eventsBySessionKey, dedupersBySession,
                            pendingFlushTimer, flushInProgress, debugSnapshot,
                            onDidAppendEvents, requestPersistSave, globalState>>
  /\ UNCHANGED <<fs, clock, env, watcher, watchers, pendingFiles, parserVars, pureVars>>

\* parser.ts:38-94 and store.ts:313-373: the file has been read and closed; the lines
\* are parsed at time now
ReadDone(p, now) ==
  /\ run[p].pc = "read"
  /\ Exists(Head(run[p].queue))
  /\ LET c == run[p].cur
         read == readChunks(fs[Head(run[p].queue)].content, c.state.byteOffset, c.newBytes)
     IN Commit(p, pollFinish(c.state, c.truncated, read, now), run[p].stat, run[p].prev,
               fileStates, persisted)
  /\ clock' = now
  /\ UNCHANGED <<fs, env, watcher, watchers, pendingFiles, parserVars, pureVars>>

\* The watcher is started with ignoreInitial: it reports the files that change, and
\* the older rollout file does not.  The session directory exists when the store
\* starts, so that no flush meets a file of an unknown session.
Next ==
  \/ \E piece \in Pieces, t \in Later : WriteFile(ActiveFile, piece, t)
  \/ \E t \in Later : TruncateFile(ActiveFile, t)
  \/ \E m \in 1..MaxTime : TouchBack(ActiveFile, m)
  \/ start
  \/ rescanSessions
  \/ \E path \in {ActiveFile, OtherPath} : enqueueFileChange(path)
  \/ flushPendingFiles
  \/ \E key \in {dirname(f) : f \in Files} : warmSession(key)
  \/ \E f \in Files : warmRolloutFile(f)
  \/ \E p \in Procs : PollFail(p)
  \/ \E p \in Procs : PollStatDone(p)
  \/ \E p \in Procs, now \in Later : ReadDone(p, now)

(***************************************************************************)
(* The extractor on a function_call_output record, and the timeline's      *)
(* buildRenderItems on the visible events of a session.                    *)
(***************************************************************************)
\* the parsed line of a function_call_output record with call id X
OutputItem(name, output) ==
  [seq |-> 1, rawLine |-> <<>>,
   raw |-> [type |-> "response_item", ptype |-> "function_call_output",
            timestamp |-> RawTimestamp("1"), text |-> <<>>,
            name |-> name, call_id |-> "X", output |-> output]]

OutputTexts == UNION {[1..n -> Words] : n \in 0..MaxWords}

\* the parsed lines of the records of every type and payload type, recognized or not
\* ("undefined" for a record without the field), with seq 1 or 2
Records ==
  LET types == {"parse_error", "session_meta", "turn_context", "event_msg",
                "response_item", "compacted", "undefined"}
      ptypes == {"agent_reasoning", "user_message", "agent_message", "token_count",
                 "function_call", "function_call_output", "reasoning", "message",
                 "undefined"}
      texts == {"", "ws", "plan"}
      summaries == {[isArray |-> FALSE, texts |-> <<>>]}
                   \cup {[isArray |-> TRUE, texts |-> s] :
                           s \in UNION {[1..n -> texts] : n \in 0..MaxPieces}}
      commands == {<<>>, <<"rg">>, <<"cat", "skills">>, <<"ls">>}
  IN {[seq |-> n, rawLine |-> <<>>,
       raw |-> [type |-> t, ptype |-> pt, timestamp |-> RawTimestamp("1"),
                text |-> <<>>, name |-> "shell_command", call_id |-> "X",
                output |-> <<"ok">>, command |-> c, summary |-> s]] :
        n \in 1..2, t \in types, pt \in ptypes, c \in commands, s \in summaries}

Extract ==
  /\ shadowEvents = <<>>
  /\ shadowEvents' = extractShadowEvents([sessionKey |-> dirname(ActiveFile),
                                          filePath |-> ActiveFile], parsedLine)
  /\ UNCHANGED <<parsedLine, visible, renderItems, emitSessions, eventDeduper, parserVars,
                 storeVars>>

\* the events of a timeline: the fields that buildRenderItems reads; no call id is ""
NoEvent == [id |-> 0, kind |-> "", relatedCallId |-> ""]
EventKinds == {"TOOL_CALL", "TOOL_RESULT", "USER_MSG"}
CallIds == {"", "X", "Y"}

VisibleLists ==
  UNION {{[i \in 1..n |-> [id |-> i, kind |-> f[i][1], relatedCallId |-> f[i][2]]] :
            f \in [1..n -> EventKinds \X CallIds]} : n \in 0..MaxVisible}

\* README.md:259-262: the last TOOL_RESULT of each call id
resultsByCallId(events) ==
  LET at(c) == {i \in 1..Len(events) : /\ events[i].kind = "TOOL_RESULT"
                                       /\ events[i].relatedCallId = c}
  IN [c \in {d \in CallIds \ {""} : at(d) # {}} |->
        events[CHOOSE i \in at(c) : \A j \in at(c) : j <= i]]

\* README.md:267-276: the loop over the events
RECURSIVE renderLoop(_, _, _, _)
renderLoop(events, results, consumed, out) ==
  IF events = <<>> THEN out
  ELSE LET e == Head(events)
       IN IF e.id \in consumed THEN renderLoop(Tail(events), results, consumed, out)
          ELSE IF e.kind = "TOOL_CALL" /\ e.relatedCallId # ""
          THEN LET found == e.relatedCallId \in DOMAIN results
                   result == IF found THEN results[e.relatedCallId] ELSE NoEvent
               IN renderLoop(Tail(events), results,
                             IF found THEN consumed \cup {result.id} ELSE consumed,
                             Append(out, [kind |-> "callBlock", event |-> NoEvent,
                                          call |-> e, result |-> result]))
          ELSE renderLoop(Tail(events), results, consumed,
                          Append(out, [kind |-> "single", event |-> e,
                                       call |-> NoEvent, result |-> NoEvent]))

buildRenderItems(events) == renderLoop(events, resultsByCallId(events), {}, <<>>)

Render ==
  /\ renderItems = <<>>
  /\ renderItems' = buildRenderItems(visible)
  /\ UNCHANGED <<visible, parsedLine, shadowEvents, emitSessions, eventDeduper, parserVars,
                 storeVars>>

(***************************************************************************)
(* requestEmitSessions, store.ts:105: throttle (utils.ts:78-100) around    *)
(* the sessions-changed notification.  emitSessions holds the closure's    *)
(* last, timer (the time at which the timeout is due) and pendingArgs, the *)
(* time now in ms and the times at which the notification has fired.       *)
(* Date.now() is far beyond waitMs when the store is constructed.  The     *)
(* callers of requestEmitSessions (store.ts:172, 373, 405) call at any     *)
(* time.                                                                   *)
(***************************************************************************)
NoTimer == -1

NewThrottle ==
  [now |-> waitMs, last |-> 0, timer |-> NoTimer, pendingArgs |-> FALSE, fired |-> <<>>]

\* utils.ts:82-98: the throttled function is called
throttleCall(t) ==
  LET remaining == waitMs - (t.now - t.last)
  IN IF remaining <= 0
     THEN [t EXCEPT !.last = t.now, !.fired = Append(@, t.now)]
     ELSE IF t.timer # NoTimer THEN [t EXCEPT !.pendingArgs = TRUE]
     ELSE [t EXCEPT !.pendingArgs = TRUE, !.timer = t.now + remaining]

\* utils.ts:92-98: the callback of the timeout
throttleTimer(t) ==
  [t EXCEPT !.timer = NoTimer, !.last = t.now, !.pendingArgs = FALSE,
            !.fired = IF t.pendingArgs THEN Append(@, t.now) ELSE @]

\* time passes; a timeout that is due runs before the clock shows the next tick
ThrottleTick ==
  /\ emitSessions.now + TickMs <= MaxNow
  /\ emitSessions.timer = NoTimer \/ emitSessions.now < emitSessions.timer
  /\ emitSessions' = [emitSessions EXCEPT !.now = @ + TickMs]
  /\ UNCHANGED <<parsedLine, shadowEvents, visible, renderItems, eventDeduper, parserVars,
                 storeVars>>

requestEmitSessions ==
  /\ emitSessions' = throttleCall(emitSessions)
  /\ UNCHANGED <<parsedLine, shadowEvents, visible, renderItems, eventDeduper, parserVars,
                 storeVars>>

ThrottleTimerFires ==
  /\ emitSessions.timer # NoTimer
  /\ emitSessions.now >= emitSessions.timer
  /\ emitSessions' = throttleTimer(emitSessions)
  /\ UNCHANGED <<parsedLine, shadowEvents, visible, renderItems, eventDeduper, parserVars,
                 storeVars>>

\* no record is at the extractor, no timeline is rendered, and requestEmitSessions
\* has not been called
\* An EventDeduper on its own: eventDeduper.d is the deduper, eventDeduper.calls the
\* ids that add has been called with, in order.
EventDeduperAdd(id) ==
  /\ Len(eventDeduper.calls) < MaxAdds
  /\ eventDeduper' = [d |-> deduperAdd(eventDeduper.d, id),
                      calls |-> Append(eventDeduper.calls, id)]
  /\ UNCHANGED <<parsedLine, shadowEvents, visible, renderItems, emitSessions, parserVars,
                 storeVars>>

PureInit ==
  /\ parsedLine = OutputItem("", <<>>)
  /\ shadowEvents = <<>>
  /\ visible = <<>>
  /\ renderItems = <<>>
  /\ emitSessions = NewThrottle
  /\ eventDeduper = [d |-> NewEventDeduper(DeduperMax), calls |-> <<>>]

Init == StoreInit /\ PInit /\ PureInit

Spec == Init /\ [][Next]_vars

\* The store while rollout files disappear: the watcher reports every rollout file,
\* and a poll of a file that is gone fails on each of its attempts.
NextBatch ==
  \/ \E f \in Files : RemoveFile(f)
  \/ start
  \/ \E path \in Files : enqueueFileChange(path)
  \/ flushPendingFiles
  \/ onFileChangedRescan
  \/ \E key \in {dirname(f) : f \in Files} : warmSession(key)
  \/ \E f \in Files : warmRolloutFile(f)
  \/ \E p \in Procs : PollGone(p)
  \/ \E p \in Procs : PollStatDone(p)
  \/ \E p \in Procs, now \in Later : ReadDone(p, now)

SpecBatch == Init /\ [][NextBatch]_vars

\* The timeout of requestPersistSave fires (store.ts:104): savePersisted,
\* store.ts:463-465, writes the progress as it is now.
savePersisted ==
  /\ requestPersistSave > 0
  /\ requestPersistSave' = requestPersistSave - 1
  /\ globalState' = Snapshot(persisted)
  /\ onDidChangeSessionEvents' = <<>>
  /\ UNCHANGED <<fs, clock, env, watcher, watchers, sessionsByKey, eventsBySessionKey, fileStates,
                 dedupersBySession, pendingFiles, pendingFlushTimer, flushInProgress,
                 persisted, debugSnapshot, onDidAppendEvents, run, parserVars, pureVars>>

\* The extension host is restarted while the store is quiet, after the debounced save
\* of the progress (store.ts:104, 372): a new store is constructed (store.ts:107-112),
\* which loads the progress (store.ts:457-461) and has everything else as new.
\* env.loaded keeps what it loaded.
Restart ==
  /\ env.restarts < MaxRestarts
  /\ \A p \in Procs : run[p].pc = "idle"
  /\ requestPersistSave = 0
  /\ persisted' = loadPersisted(globalState)
  /\ env' = [env EXCEPT !.restarts = @ + 1, !.loaded = loadPersisted(globalState)]
  /\ UNCHANGED <<requestPersistSave, globalState>>
  /\ watcher' = FALSE
  /\ watchers' = NewWatchers
  /\ sessionsByKey' = EmptyMap
  /\ eventsBySessionKey' = EmptyMap
  /\ fileStates' = EmptyMap
  /\ dedupersBySession' = EmptyMap
  /\ pendingFiles' = <<>>
  /\ pendingFlushTimer' = 0
  /\ flushInProgress' = FALSE
  /\ debugSnapshot' = [lastPoll |-> NoLastPoll, lastError |-> FALSE]
  /\ onDidAppendEvents' = <<>>
  /\ onDidChangeSessionEvents' = <<>>
  /\ UNCHANGED <<fs, clock, run, parserVars, pureVars>>

\* The store across a restart, while the agent writes a line in parts.
NextRestart ==
  \/ \E piece \in Fragments, t \in Later : AppendFragment(ActiveFile, piece, t)
  \/ savePersisted
  \/ Restart
  \/ warmRolloutFile(ActiveFile)
  \/ \E p \in Procs : PollStatDone(p)
  \/ \E p \in Procs, now \in Later : ReadDone(p, now)

SpecRestart == Init /\ [][NextRestart]_vars

\* The store that is started and stopped while the agent writes.
NextStop ==
  \/ \E piece \in Pieces, t \in Later : WriteFile(ActiveFile, piece, t)
  \/ start
  \/ stop
  \/ \E path \in {ActiveFile, OtherPath} : enqueueFileChange(path)
  \/ flushPendingFiles
  \/ \E p \in Procs : PollStatDone(p)
  \/ \E p \in Procs, now \in Later : ReadDone(p, now)

SpecStop == Init /\ [][NextStop]_vars

\* The store between the watcher and the flush: the watcher reports the rollout
\* files and another file while the agent writes, and the flush timer fires.
NextQueue ==
  \/ \E piece \in Pieces, t \in Later : WriteFile(ActiveFile, piece, t)
  \/ start
  \/ \E path \in Paths : enqueueFileChange(path)
  \/ flushPendingFiles
  \/ \E p \in Procs : PollStatDone(p)
  \/ \E p \in Procs, now \in Later : ReadDone(p, now)

SpecQueue == Init /\ [][NextQueue]_vars

\* A timeout that stays pending fires (store.ts:257-260), and the I/O calls of a poll
\* return (store.ts:304-313, parser.ts:21-60): a flush does not stay at the read of a
\* file for ever.
NextFair ==
  \/ start
  \/ \E path \in Paths : enqueueFileChange(path)
  \/ flushPendingFiles
  \/ \E p \in Procs : PollStatDone(p)
  \/ \E p \in Procs, now \in Later : ReadDone(p, now)

FairSpecQueue ==
  /\ Init /\ [][NextFair]_vars
  /\ WF_vars(flushPendingFiles)
  /\ WF_vars(PollStatDone("flush"))
  /\ []<>(run["flush"].pc # "read")

\* The poll cycles of the flush and of warmSession while rollout files disappear and
\* I/O calls fail.  A poll is not left waiting: fs.stat and the read answer or fail
\* (store.ts:304, 313, parser.ts:21-60), and the wait before a retry ends
\* (store.ts:381-383).
NextCycle ==
  \/ \E f \in Files : RemoveFile(f)
  \/ start
  \/ enqueueFileChange(ActiveFile)
  \/ flushPendingFiles
  \/ onFileChangedRescan
  \/ \E key \in {dirname(f) : f \in Files} : warmSession(key)
  \/ \E p \in Procs : PollFail(p)
  \/ \E p \in Procs : PollGone(p)
  \/ \E p \in Procs : PollStatDone(p)
  \/ \E p \in Procs, now \in Later : ReadDone(p, now)

FairSpecCycle ==
  /\ Init /\ [][NextCycle]_vars
  /\ WF_vars(onFileChangedRescan)
  /\ \A p \in Procs : WF_vars(PollGone(p)) /\ WF_vars(PollStatDone(p))
  /\ \A p \in Procs : []<>(run[p].pc # "read")

\* The store that resumes: the agent writes a line in parts, the file is emptied or
\* its modification time set back, and the extension host is restarted.
NextResume ==
  \/ \E piece \in Fragments, t \in Later : AppendFragment(ActiveFile, piece, t)
  \/ \E t \in Later : TruncateFile(ActiveFile, t)
  \/ \E m \in 1..MaxTime : TouchBack(ActiveFile, m)
  \/ savePersisted
  \/ Restart
  \/ warmRolloutFile(ActiveFile)
  \/ \E p \in Procs : PollStatDone(p)
  \/ \E p \in Procs, now \in Later : ReadDone(p, now)

SpecResume == Init /\ [][NextResume]_vars

\* What is found under PERSIST_KEY at the next start is not what this store saved:
\* nothing is stored, or an extension of another version has stored raw.
StoredByOther(raw) ==
  /\ env.restarts < MaxRestarts
  /\ \A p \in Procs : run[p].pc = "idle"
  /\ requestPersistSave = 0
  /\ globalState.stored
  /\ raw # globalState
  /\ globalState' = raw
  /\ onDidChangeSessionEvents' = <<>>
  /\ UNCHANGED <<fs, clock, env, watcher, watchers, sessionsByKey, eventsBySessionKey, fileStates,
                 dedupersBySession, pendingFiles, pendingFlushTimer, flushInProgress,
                 persisted, requestPersistSave, debugSnapshot, onDidAppendEvents, run,
                 parserVars, pureVars>>

\* The store that is constructed over a snapshot: the one that the store before it
\* saved, none, one of another version, or one without fileProgress.
NextLoad ==
  \/ \E piece \in Fragments, t \in Later : AppendFragment(ActiveFile, piece, t)
  \/ savePersisted
  \/ StoredByOther(NoSnapshot)
  \/ StoredByOther([globalState EXCEPT !.version = 2])
  \/ StoredByOther([globalState EXCEPT !.hasFileProgress = FALSE, !.fileProgress = EmptyMap])
  \/ Restart
  \/ warmRolloutFile(ActiveFile)
  \/ \E p \in Procs : PollStatDone(p)
  \/ \E p \in Procs, now \in Later : ReadDone(p, now)

SpecLoad == Init /\ [][NextLoad]_vars

\* The throttle of the sessions-changed notification while requests arrive.
NextThrottle ==
  \/ ThrottleTick
  \/ requestEmitSessions
  \/ ThrottleTimerFires

SpecThrottle == Init /\ [][NextThrottle]_vars

\* what a clearSession of the session finds
Cleared(sessionKey) ==
  [done |-> TRUE, key |-> sessionKey,
   ids |-> IF Has(eventsBySessionKey, sessionKey)
           THEN {eventsBySessionKey[sessionKey][i].id :
                   i \in 1..Len(eventsBySessionKey[sessionKey])}
           ELSE {},
   sizes |-> [f \in Files |-> Len(fs[f].content)],
   faults |-> env.faults,
   settled |-> /\ \A p \in Procs : run[p].pc = "idle"
               /\ \A f \in Files : validatePersistedProgress(persisted, f, Stat(f))]

\* a clearSession that clears the lists and the dedupers of all sessions
clearSession_allSessions(sessionKey) ==
  /\ eventsBySessionKey' = EmptyMap
  /\ dedupersBySession' = EmptyMap
  /\ onDidChangeSessionEvents' = <<>>
  /\ env' = [env EXCEPT !.cleared = Cleared(sessionKey)]
  /\ UNCHANGED <<fs, clock, watcher, watchers, sessionsByKey, fileStates, pendingFiles,
                 pendingFlushTimer, flushInProgress, persisted, requestPersistSave,
                 globalState, debugSnapshot, onDidAppendEvents, run, parserVars, pureVars>>

\* clearSession, store.ts:411-414
clearSession(sessionKey) ==
  /\ eventsBySessionKey' = MapDelete(eventsBySessionKey, sessionKey)
  /\ dedupersBySession' = MapDelete(dedupersBySession, sessionKey)
  /\ onDidChangeSessionEvents' = <<>>
  /\ env' = [env EXCEPT !.cleared = Cleared(sessionKey)]
  /\ UNCHANGED <<fs, clock, watcher, watchers, sessionsByKey, fileStates, pendingFiles,
                 pendingFlushTimer, flushInProgress, persisted, requestPersistSave,
                 globalState, debugSnapshot, onDidAppendEvents, run, parserVars, pureVars>>

\* The store whose sessions the user clears, "s1" and a session "s2" without events,
\* while files are written, emptied and touched, sessions are scanned and warmed and
\* I/O calls fail.
NextClear ==
  \/ \E piece \in Pieces, t \in Later : WriteFile(ActiveFile, piece, t)
  \/ \E t \in Later : TruncateFile(ActiveFile, t)
  \/ \E m \in 1..MaxTime : TouchBack(ActiveFile, m)
  \/ rescanSessions
  \/ \E key \in {dirname(f) : f \in Files} : warmSession(key)
  \/ warmRolloutFile(ActiveFile)
  \/ \E key \in {"s1", "s2"} : clearSession(key)
  \/ \E p \in Procs : PollFail(p)
  \/ \E p \in Procs : PollStatDone(p)
  \/ \E p \in Procs, now \in Later : ReadDone(p, now)

SpecClear == Init /\ [][NextClear]_vars

\* The watchers of the store while start and reloadAfterConfigChange run, codexHome is
\* there or not, and files change.
NextWatcher ==
  \/ rescanSessions
  \/ \E r \in {"start", "reload"} : startWatcherBegin(r)
  \/ \E r \in {"start", "reload"}, found \in BOOLEAN : startWatcherEnd(r, found)
  \/ \E path \in Paths : watcherEvent(path)

SpecWatcher == Init /\ [][NextWatcher]_vars

\* An EventDeduper of capacity DeduperMax under every sequence of add calls with three
\* ids (the ids of the store are SHA-1 hex strings, so none is empty).
NextDeduper == \E id \in {"a", "b", "c"} : EventDeduperAdd(id)

SpecDeduper == Init /\ [][NextDeduper]_vars

\* The extractor on each record of the bounded alphabet.
InitExtract ==
  /\ StoreInit
  /\ PInit
  /\ parsedLine \in {OutputItem(n, o) : n \in ToolNames, o \in OutputTexts} \cup Records
  /\ shadowEvents = <<>>
  /\ visible = <<>>
  /\ renderItems = <<>>
  /\ emitSessions = NewThrottle
  /\ eventDeduper = [d |-> NewEventDeduper(DeduperMax), calls |-> <<>>]

NextExtract == Extract

SpecExtract == InitExtract /\ [][NextExtract]_vars

\* The timeline on each list of visible events of the bounded alphabet.
InitRender ==
  /\ StoreInit
  /\ PInit
  /\ parsedLine = OutputItem("", <<>>)
  /\ shadowEvents = <<>>
  /\ visible \in VisibleLists
  /\ renderItems = <<>>
  /\ emitSessions = NewThrottle
  /\ eventDeduper = [d |-> NewEventDeduper(DeduperMax), calls |-> <<>>]

NextRender == Render

SpecRender == InitRender /\ [][NextRender]_vars

\* The store whose polls fail: the active file is written, cut, touched and removed
\* while warmRolloutFile polls it.
NextRetry ==
  \/ \E piece \in Pieces, t \in Later : WriteFile(ActiveFile, piece, t)
  \/ \E t \in Later : TruncateFile(ActiveFile, t)
  \/ \E m \in 1..MaxTime : TouchBack(ActiveFile, m)
  \/ RemoveFile(ActiveFile)
  \/ warmRolloutFile(ActiveFile)
  \/ \E p \in Procs : PollFail(p)
  \/ \E p \in Procs : PollGone(p)
  \/ \E p \in Procs : PollStatDone(p)
  \/ \E p \in Procs, now \in Later : ReadDone(p, now)

SpecRetry == Init /\ [][NextRetry]_vars

\* The polls of SpecRetry with the timeout of the debounced save: a timeout that is
\* pending fires (utils.ts:74).
NextSave ==
  \/ \E piece \in Pieces, t \in Later : WriteFile(ActiveFile, piece, t)
  \/ \E t \in Later : TruncateFile(ActiveFile, t)
  \/ \E m \in 1..MaxTime : TouchBack(ActiveFile, m)
  \/ RemoveFile(ActiveFile)
  \/ warmRolloutFile(ActiveFile)
  \/ \E p \in Procs : PollFail(p)
  \/ \E p \in Procs : PollGone(p)
  \/ \E p \in Procs : PollStatDone(p)
  \/ \E p \in Procs, now \in Later : ReadDone(p, now)
  \/ savePersisted

FairSpecSave == Init /\ [][NextSave]_vars /\ WF_vars(savePersisted)

PNext ==
  \/ \E piece \in PPieces : PWriterPick(piece)
  \/ \E k \in 1..MaxWrite : PWriterWrite(k)
  \/ \E n \in 0..MaxWrite : PTruncate(n)
  \/ PPollStat
  \/ PPollRead

SpecParser == Init /\ [][PNext]_vars

(***************************************************************************)
(* The lines of a text, said without the parser's split: the text between  *)
(* one line feed and the next, white space at its ends removed, when       *)
(* something is left.                                                      *)
(***************************************************************************)
SetMin(S) == CHOOSE x \in S : \A y \in S : x <= y
SetMax(S) == CHOOSE x \in S : \A y \in S : x >= y

Stripped(seg) ==
  LET nz == {i \in 1..Len(seg) : ~IsWs(seg[i])}
  IN IF nz = {} THEN <<>> ELSE SubSeq(seg, SetMin(nz), SetMax(nz))

LineFeeds(text) == {i \in 1..Len(text) : text[i] = "LF"}

LineEndingAt(text, i) ==
  LET before == {j \in LineFeeds(text) : j < i}
      first == IF before = {} THEN 1 ELSE SetMax(before) + 1
  IN Stripped(SubSeq(text, first, i - 1))

RECURSIVE LinesUpTo(_, _)
LinesUpTo(text, n) ==
  IF n = 0 THEN <<>>
  ELSE IF text[n] = "LF" /\ LineEndingAt(text, n) # <<>>
       THEN Append(LinesUpTo(text, n - 1), LineEndingAt(text, n))
       ELSE LinesUpTo(text, n - 1)

ExpectedLines(text) == LinesUpTo(text, Len(text))

PendingTail(text) ==
  IF LineFeeds(text) = {} THEN text
  ELSE SubSeq(text, SetMax(LineFeeds(text)) + 1, Len(text))

RawLines(events) == [i \in 1..Len(events) |-> events[i].rawLine]

\* the lines that are JSON in the model's alphabet
IsJsonLine(l) ==
  /\ Len(l) >= 2
  /\ l[1] = "{"
  /\ l[Len(l)] = "}"
  /\ \E a \in 0..1, b \in 0..1 :
       /\ 1 + a + b < Len(l)
       /\ a = 1 => l[2] \in TypeChars
       /\ b = 1 => l[2 + a] \in TsChars
       /\ \A i \in (2 + a + b)..(Len(l) - 1) : l[i] \in PayloadChars

(***************************************************************************)
(* C1.  A poll that finds the file no larger than the byteOffset of the    *)
(* resume state it hands to the parser yields no record, commits that      *)
(* state's byteOffset, partialBuffer and seq as they were, appends no      *)
(* event to any session list and fires no events-appended notification.    *)
(***************************************************************************)
C1_NoGrowthNoEvents ==
  [][\A p \in Procs :
       (/\ PollStatDone(p)
        /\ Stat(Head(run[p].queue)).size
             = checkedStates(Head(run[p].queue), Stat(Head(run[p].queue)))[Head(run[p].queue)].byteOffset)
       => LET f == Head(run[p].queue)
              prev == checkedStates(f, Stat(f))[f]
          IN /\ debugSnapshot'.lastPoll.filePath = f
             /\ debugSnapshot'.lastPoll.parsed = 0
             /\ fileStates'[f].byteOffset = prev.byteOffset
             /\ fileStates'[f].partialBuffer = prev.partialBuffer
             /\ fileStates'[f].seq = prev.seq
             /\ eventsBySessionKey' = eventsBySessionKey
             /\ onDidAppendEvents' = onDidAppendEvents]_vars

\* the active file has been polled twice: the first poll appended its events, the
\* second found no growth
C1_Witness ==
  /\ debugSnapshot.lastPoll.filePath = ActiveFile
  /\ debugSnapshot.lastPoll.bytesRead = 0
  /\ debugSnapshot.lastPoll.parsed = 0
  /\ ~debugSnapshot.lastPoll.truncated
  /\ Has(fileStates, ActiveFile)
  /\ fileStates[ActiveFile].byteOffset = Len(fs[ActiveFile].content)
  /\ fileStates[ActiveFile].byteOffset > 0
  /\ Len(onDidAppendEvents) = 1
  /\ onDidAppendEvents[1][1].rawRef.filePath = ActiveFile

(***************************************************************************)
(* C2 (as claimed).  A file written in two parts and polled after each     *)
(* part gives, over the two polls, the records, sequence numbers and final *)
(* byteOffset, partialBuffer and seq of one poll of the whole content.     *)
(***************************************************************************)
C2_TwoPollsAsOnePoll ==
  (pnpolls = 2 /\ ptruncs = 0 /\ ppc = "idle") =>
    LET one == poll(SubSeq(pfile, 1, pstate.byteOffset), 0, InitialState(PFilePath), 1)
    IN /\ pyield = one.events
       /\ pstate.byteOffset = one.state.byteOffset
       /\ pstate.partialBuffer = one.state.partialBuffer
       /\ pstate.seq = one.state.seq

(***************************************************************************)
(* C3.  The records yielded are those of the lines whose line feed has     *)
(* been read, each once and in order; the text read after the last line    *)
(* feed is in partialBuffer and has yielded no record; and a poll that     *)
(* reads only the line feed of a held-back line yields that line alone.    *)
(***************************************************************************)
C3_PartialLineHeldBack ==
  /\ RawLines(pyield) = ExpectedLines(ptext)
  /\ pstate.partialBuffer = PendingTail(ptext)
  /\ (plast.text = <<"LF">> /\ ~plast.res.truncated
        /\ Stripped(plast.prev.partialBuffer) # <<>>) =>
       RawLines(plast.res.events) = <<Stripped(plast.prev.partialBuffer)>>

C3_Witness ==
  /\ plast.text = <<"LF">>
  /\ ~plast.res.truncated
  /\ Len(plast.res.events) = 1
  /\ Len(pyield) >= 2
  /\ Len(plast.prev.partialBuffer) >= 2

(***************************************************************************)
(* C4.  A poll reports truncated exactly when the size it observed is      *)
(* below the byteOffset it was given; it then reads from byte 0, drops the *)
(* partial buffer and numbers its records from 1.                          *)
(***************************************************************************)
C4_TruncationDetected ==
  /\ plast.res.truncated = (plast.size < plast.prev.byteOffset)
  /\ plast.res.truncated =>
       /\ plast.from = 0
       /\ plast.res.state.byteOffset = Len(plast.bytes)
       /\ RawLines(plast.res.events) = ExpectedLines(plast.text)
       /\ plast.res.state.partialBuffer = PendingTail(plast.text)
       /\ \A i \in 1..Len(plast.res.events) : plast.res.events[i].seq = i
       /\ plast.res.state.seq = Len(plast.res.events)

C4_Witness ==
  /\ plast.res.truncated
  /\ plast.prev.seq >= 1
  /\ plast.prev.partialBuffer # <<>>
  /\ Len(plast.res.events) >= 1

(***************************************************************************)
(* C5.  In every poll each complete non-blank line yields one record, in   *)
(* file order: the parsed value when the line is JSON, and otherwise a     *)
(* parse_error record, which is extracted as one ERROR event of severity   *)
(* error tagged error and parse.                                           *)
(***************************************************************************)
C5_BadLineDoesNotBlock ==
  LET base == IF plast.res.truncated THEN <<>> ELSE plast.prev.partialBuffer
      lines == ExpectedLines(base \o plast.text)
      events == plast.res.events
      ctx == [sessionKey |-> "s1", filePath |-> PFilePath]
  IN /\ Len(events) = Len(lines)
     /\ \A i \in 1..Len(events) :
          /\ events[i].rawLine = lines[i]
          /\ IF IsJsonLine(lines[i])
             THEN /\ events[i].raw.type # "parse_error"
                  /\ events[i].raw = safeJsonParse(lines[i]).value
             ELSE /\ events[i].raw.type = "parse_error"
                  /\ LET out == extractShadowEvents(ctx, events[i])
                     IN /\ Len(out) = 1
                        /\ out[1].kind = "ERROR"
                        /\ out[1].severity = "error"
                        /\ out[1].tags = <<"error", "parse">>
                        /\ out[1].seq = events[i].seq

C5_Witness ==
  \E i, j \in 1..Len(plast.res.events) :
    /\ i < j
    /\ plast.res.events[i].raw.type = "parse_error"
    /\ plast.res.events[j].raw.type = "session_meta"


(***************************************************************************)
(* The session lists, for the store's claims.                              *)
(***************************************************************************)
SessionLists == {eventsBySessionKey[k] : k \in DOMAIN eventsBySessionKey}

NoDuplicateIds(list) ==
  \A i, j \in 1..Len(list) : i # j => list[i].id # list[j].id

RECURSIVE Concat(_)
Concat(qs) == IF qs = <<>> THEN <<>> ELSE Head(qs) \o Concat(Tail(qs))

(***************************************************************************)
(* C6 (as claimed).  While a file has only been appended to, two events of *)
(* a session list that come from the same line of the same file (the same  *)
(* file and the same seq) have the same id.                                *)
(***************************************************************************)
C6_SameLineSameId ==
  env.truncs = 0 =>
    \A list \in SessionLists : \A i, j \in 1..Len(list) :
      (list[i].rawRef.filePath = list[j].rawRef.filePath /\ list[i].seq = list[j].seq)
        => list[i].id = list[j].id

(***************************************************************************)
(* C7 (as claimed).  No session list ever holds two events with the same   *)
(* id.                                                                     *)
(***************************************************************************)
C7_NoDuplicateIds == \A list \in SessionLists : NoDuplicateIds(list)

(***************************************************************************)
(* C7 (amended).  A session list that holds no more events than the        *)
(* deduper's capacity holds no two events with the same id.                *)
(***************************************************************************)
C7_NoDuplicateIdsWithinCapacity ==
  \A list \in SessionLists : Len(list) <= DeduperMax => NoDuplicateIds(list)

\* a poll has read lines again and the deduper, full but not yet evicting, has
\* refused all of them
C7_Witness ==
  /\ \E list \in SessionLists : Len(list) = DeduperMax
  /\ debugSnapshot.lastPoll.parsed > 0
  /\ debugSnapshot.lastPoll.extracted = 0

(***************************************************************************)
(* C8.  Every session list is sorted by timestamp and then by seq: for any *)
(* two positions i < j, ts[i] < ts[j], or ts[i] = ts[j] and seq[i] <=      *)
(* seq[j].                                                                 *)
(***************************************************************************)
C8_SessionListSorted ==
  \A list \in SessionLists : \A i, j \in 1..Len(list) :
    i < j => \/ list[i].ts < list[j].ts
             \/ (list[i].ts = list[j].ts /\ list[i].seq <= list[j].seq)

\* events of both files have been appended, and not in the order they are stored in
C8_Witness ==
  \E list \in SessionLists :
    /\ Len(list) >= 3
    /\ {list[i].rawRef.filePath : i \in 1..Len(list)} = Files
    /\ Concat(onDidAppendEvents) # list

(***************************************************************************)
(* C9 (as claimed).  The poll of a flush batch and the poll of a warm call *)
(* are never in progress together.                                         *)
(***************************************************************************)
C9_OnePollAtATime ==
  ~(run["flush"].pc \in {"stat", "read"} /\ run["warm"].pc \in {"stat", "read"})

(***************************************************************************)
(* C10 (as claimed).  The committed byteOffset of a file decreases only in *)
(* a step that detects a truncation or a rotation: the poll committed in   *)
(* the step reports truncated, or the step's validation of the persisted   *)
(* progress fails.                                                         *)
(***************************************************************************)
C10_OffsetNeverDecreases ==
  [][\A f \in Files :
       (/\ Has(fileStates, f) /\ Has(fileStates', f)
        /\ fileStates'[f].byteOffset < fileStates[f].byteOffset)
       => \/ (debugSnapshot'.lastPoll.filePath = f /\ debugSnapshot'.lastPoll.truncated)
          \/ \E p \in Procs : /\ PollStatDone(p)
                              /\ Head(run[p].queue) = f
                              /\ ~validatePersistedProgress(persisted, f, Stat(f))]_vars

(***************************************************************************)
(* C11 (as claimed).  The updatedAt of a session never decreases from one  *)
(* state of the store to the next.                                         *)
(***************************************************************************)
C11_UpdatedAtNeverDecreases ==
  [][\A k \in (DOMAIN sessionsByKey) \cap (DOMAIN sessionsByKey') :
       sessionsByKey'[k].updatedAt >= sessionsByKey[k].updatedAt]_vars

(* C12.  When the poll of a file of a flush batch gives up after its last  *)
(* attempt, the flush goes on with the next file of the batch if there is  *)
(* one, and otherwise releases flushInProgress; and whenever files are     *)
(* pending and no flush is running, the flush timer is armed, so that      *)
(* files enqueued later are flushed too.                                   *)
C12_BatchSurvivesFailure ==
  [][/\ (PollGone("flush") /\ run["flush"].attempt >= maxAttempts) =>
          LET rest == Tail(run["flush"].queue)
          IN IF rest # <<>>
             THEN /\ flushInProgress'
                  /\ run'["flush"].queue = rest
                  /\ run'["flush"].pc \in {"rescan", "stat"}
                  /\ run'["flush"].attempt = 0
             ELSE /\ ~flushInProgress'
                  /\ run'["flush"].pc = "idle"
     /\ (pendingFiles' # <<>> /\ ~flushInProgress') => pendingFlushTimer' > 0]_vars

\* the first file of a batch is gone and its poll has given up; the flush is at the
\* second file of the batch
C12_Witness ==
  /\ debugSnapshot.lastError
  /\ FileList[1] \in env.gone
  /\ flushInProgress
  /\ run["flush"].queue = <<FileList[2]>>
  /\ run["flush"].pc = "stat"
  /\ run["warm"] = IdleRun
  /\ onDidChangeSessionEvents = <<dirname(FileList[1])>>

\* the events the extractor makes of a line of a rollout file
LineEvents(line) ==
  extractShadowEvents([sessionKey |-> dirname(ActiveFile), filePath |-> ActiveFile],
                      [seq |-> 0, rawLine |-> line, raw |-> safeJsonParse(line).value])

\* the byte offset of the progress that the restarted store loaded
LoadedOffset(f) == IF Has(env.loaded, f) THEN env.loaded[f].byteOffset ELSE 0

(* C13 (as claimed).  Once the restarted store has read the active file to *)
(* its end, every JSON line of the file whose newline lies beyond the      *)
(* byte offset of the loaded progress has its event in the session list,   *)
(* with the kind and the timestamp of the whole line.                      *)
C13_RestartYieldsWholeLines ==
  LET f == ActiveFile
      text == fs[f].content
      list == IF Has(eventsBySessionKey, dirname(f)) THEN eventsBySessionKey[dirname(f)]
              ELSE <<>>
  IN (/\ env.restarts > 0
      /\ \A p \in Procs : run[p].pc = "idle"
      /\ Has(fileStates, f)
      /\ fileStates[f].byteOffset = Len(text))
     => \A i \in LineFeeds(text) :
          (i > LoadedOffset(f) /\ IsJsonLine(LineEndingAt(text, i)))
          => \A j \in 1..Len(LineEvents(LineEndingAt(text, i))) :
               \E k \in 1..Len(list) :
                 /\ list[k].kind = LineEvents(LineEndingAt(text, i))[j].kind
                 /\ list[k].ts = LineEvents(LineEndingAt(text, i))[j].ts

\* the poll of the file at the head of the warm call's queue ends with this step: it
\* has succeeded, or its last attempt has failed
WarmPollEnds ==
  \/ PollGone("warm") /\ run["warm"].attempt >= maxAttempts
  \/ PollStatDone("warm") /\ run'["warm"].pc # "read"
  \/ \E now \in Later : ReadDone("warm", now)

(* C14.  warmSession for a known session key takes the session's           *)
(* rolloutFiles as the files to poll and for an unknown key starts no poll *)
(* and fires nothing.  A step of a running warmSession call either stays   *)
(* at the file it polls, or ends the poll of that file and goes to the     *)
(* next file of the list, in both cases without a session-events           *)
(* notification, or ends the poll of the last file, and then the call ends *)
(* and the notification fires once, for the session key.                   *)
C14_WarmSessionNotifiesOnce ==
  [][/\ \A key \in {dirname(f) : f \in Files} :
          warmSession(key) =>
            /\ onDidChangeSessionEvents' = <<>>
            /\ IF Has(sessionsByKey, key)
               THEN /\ run'["warm"].call = "warmSession"
                    /\ run'["warm"].queue = sessionsByKey[key].rolloutFiles
                    /\ run'["warm"].pc = "stat"
                    /\ run'["warm"].attempt = 0
               ELSE /\ run' = run
                    /\ run["warm"].pc = "idle"
                    /\ UNCHANGED <<fileStates, persisted, eventsBySessionKey, debugSnapshot>>
     /\ (run["warm"].call = "warmSession" /\ run'["warm"] # run["warm"]) =>
          LET q == run["warm"].queue
          IN \/ /\ ~WarmPollEnds
                /\ run'["warm"].call = "warmSession"
                /\ run'["warm"].queue = q
                /\ onDidChangeSessionEvents' = <<>>
             \/ /\ WarmPollEnds
                /\ Tail(q) # <<>>
                /\ run'["warm"].call = "warmSession"
                /\ run'["warm"].queue = Tail(q)
                /\ run'["warm"].pc = "stat"
                /\ run'["warm"].attempt = 0
                /\ onDidChangeSessionEvents' = <<>>
             \/ /\ WarmPollEnds
                /\ Tail(q) = <<>>
                /\ run'["warm"] = IdleRun
                /\ onDidChangeSessionEvents' = <<dirname(Head(q))>>]_vars

\* a warmSession call of two files, the first of which is gone, has ended: the poll
\* of the first file has given up, the second file has been polled, and the
\* notification fires
C14_Witness ==
  /\ run["warm"] = IdleRun
  /\ run["flush"] = IdleRun
  /\ onDidChangeSessionEvents = <<dirname(FileList[2])>>
  /\ debugSnapshot.lastError
  /\ debugSnapshot.lastPoll.filePath = FileList[2]
  /\ env.gone = {FileList[1]}
  /\ Has(sessionsByKey, dirname(FileList[2]))
  /\ sessionsByKey[dirname(FileList[2])].rolloutFiles = FileList
  /\ ~Has(fileStates, FileList[1])
  /\ pendingFiles = <<>>
  /\ pendingFlushTimer = 0

(* C15.  rescanSessions makes the session index anew from the rollout      *)
(* files that are there: one session for each directory, with its files    *)
(* and with the newest modification time of its files as updatedAt,        *)
(* whatever the index held before; the event lists, the dedup sets, the    *)
(* resume states and the persisted progress stay as they are.              *)
C15_RescanFrame ==
  [][rescanSessions =>
       /\ DOMAIN sessionsByKey' = {dirname(f) : f \in {g \in Files : Exists(g)}}
       /\ \A k \in DOMAIN sessionsByKey' :
            LET mine == {f \in Files : Exists(f) /\ dirname(f) = k}
            IN /\ sessionsByKey'[k].sessionKey = k
               /\ Range(sessionsByKey'[k].rolloutFiles) = mine
               /\ Len(sessionsByKey'[k].rolloutFiles) = Cardinality(mine)
               /\ sessionsByKey'[k].updatedAt = SetMax({fs[f].mtimeMs : f \in mine})
       /\ UNCHANGED <<eventsBySessionKey, dedupersBySession, fileStates, persisted>>]_vars

\* the store holds events and a resume state, and the updatedAt of the session is
\* older than its newest event: a rescan has replaced the one that the poll had set
C15_Witness ==
  LET k == dirname(ActiveFile)
  IN /\ Has(sessionsByKey, k)
     /\ Has(eventsBySessionKey, k)
     /\ Has(fileStates, ActiveFile)
     /\ Has(persisted, ActiveFile)
     /\ Has(dedupersBySession, k)
     /\ \E i \in 1..Len(eventsBySessionKey[k]) :
          eventsBySessionKey[k][i].ts > sessionsByKey[k].updatedAt
     /\ sessionsByKey[k].rolloutFiles = FileList

(* C16 (as claimed).  While the watcher is not active - before start and   *)
(* after stop - no step starts a flush: the poll of the flush batch does   *)
(* not leave idle.                                                         *)
C16_NoPollAfterStop ==
  [][~watcher => ~(run["flush"].pc = "idle" /\ run'["flush"].pc # "idle")]_vars

(* C17 (as claimed).  In the rendered timeline every TOOL_CALL with a call *)
(* id and every TOOL_RESULT of that call id that are both in the visible   *)
(* events are together in one call block, and the result is no item of its *)
(* own, wherever the two are in the list; a TOOL_RESULT without call id or *)
(* without a call of its id is an item of its own.                         *)
C17_PairRenderedAsOneBlock ==
  renderItems # <<>> =>
    /\ \A i, j \in 1..Len(visible) :
         (/\ visible[i].kind = "TOOL_CALL"
          /\ visible[j].kind = "TOOL_RESULT"
          /\ visible[i].relatedCallId # ""
          /\ visible[j].relatedCallId = visible[i].relatedCallId)
         => /\ \E k \in 1..Len(renderItems) :
                 /\ renderItems[k].kind = "callBlock"
                 /\ renderItems[k].call = visible[i]
                 /\ renderItems[k].result = visible[j]
            /\ ~\E k \in 1..Len(renderItems) :
                  /\ renderItems[k].kind = "single"
                  /\ renderItems[k].event = visible[j]
    /\ \A j \in 1..Len(visible) :
         (/\ visible[j].kind = "TOOL_RESULT"
          /\ ~\E i \in 1..Len(visible) : /\ visible[i].kind = "TOOL_CALL"
                                          /\ visible[i].relatedCallId # ""
                                          /\ visible[i].relatedCallId = visible[j].relatedCallId)
         => \E k \in 1..Len(renderItems) :
              /\ renderItems[k].kind = "single"
              /\ renderItems[k].event = visible[j]

(* C18 (as claimed).  The event extracted from a function_call_output      *)
(* record whose output text holds the marker of an exit code other than 0  *)
(* has severity error.                                                     *)
C18_ExitCodeForcesError ==
  (/\ shadowEvents # <<>>
   /\ \E i \in 1..Len(parsedLine.raw.output) : parsedLine.raw.output[i] = "E1")
  => shadowEvents[1].severity = "error"

(* C18 (amended).  The event extracted from a function_call_output record  *)
(* of the tool shell_command whose first exit-code marker has a number     *)
(* other than 0 is one TOOL_RESULT event with the call id of the record    *)
(* and with severity error, whatever words the output text holds.          *)
C18_ShellExitCodeForcesError ==
  LET output == parsedLine.raw.output
      markers == {i \in 1..Len(output) : output[i] \in {"E0", "E1"}}
  IN (/\ shadowEvents # <<>>
      /\ parsedLine.raw.name = "shell_command"
      /\ markers # {}
      /\ output[SetMin(markers)] = "E1")
     => /\ Len(shadowEvents) = 1
        /\ shadowEvents[1].kind = "TOOL_RESULT"
        /\ shadowEvents[1].relatedCallId = parsedLine.raw.call_id
        /\ shadowEvents[1].severity = "error"

\* the output of a shell_command has the marker of exit code 1 and none of the words
\* that the keyword scan looks for, and its event has severity error
C18_Witness ==
  /\ parsedLine.raw.name = "shell_command"
  /\ parsedLine.raw.output = <<"ok", "E1">>
  /\ shadowEvents # <<>>
  /\ shadowEvents[1].severity = "error"

(* C19 (as claimed).  The records of every poll carry the seq values       *)
(* prev.seq + 1, prev.seq + 2, ... in order and the returned state's seq   *)
(* is prev.seq plus their number; the records yielded since the last       *)
(* truncation have strictly increasing seq values.                         *)
C19_SeqContinuesFromPrev ==
  /\ \A i \in 1..Len(plast.res.events) : plast.res.events[i].seq = plast.prev.seq + i
  /\ plast.res.state.seq = plast.prev.seq + Len(plast.res.events)
  /\ \A i, j \in 1..Len(pyield) : i < j => pyield[i].seq < pyield[j].seq

(* C19 (amended).  The records of a poll carry the seq values base + 1,    *)
(* base + 2, ... in file order, one for each complete non-blank line,      *)
(* where base is prev.seq, and 0 when the poll detects a truncation; the   *)
(* returned state's seq is base plus their number; the records yielded     *)
(* since the last truncation carry 1, 2, ... without gap.                  *)
C19_SeqContinuesFromBase ==
  LET base == IF plast.res.truncated THEN 0 ELSE plast.prev.seq
      held == IF plast.res.truncated THEN <<>> ELSE plast.prev.partialBuffer
  IN /\ Len(plast.res.events) = Len(ExpectedLines(held \o plast.text))
     /\ \A i \in 1..Len(plast.res.events) : plast.res.events[i].seq = base + i
     /\ plast.res.state.seq = base + Len(plast.res.events)
     /\ pstate.seq = Len(pyield)
     /\ \A i \in 1..Len(pyield) : pyield[i].seq = i

\* a poll without truncation that continues from a seq above 0, and that yields the
\* record of a line of which it was given the beginning
C19_Witness ==
  /\ ~plast.res.truncated
  /\ plast.prev.seq >= 1
  /\ plast.prev.partialBuffer # <<>>
  /\ Len(plast.res.events) >= 1
  /\ plast.res.events[1].seq = 2

\* the resume state from which the next attempt for a file starts
ResumeState(states, progress, f) == getOrCreateFileState(states, progress, f)[f]

\* a step of an attempt that does not commit: fs.stat has answered and the read is
\* awaited, or an I/O call has failed
AttemptGoesOn(p) == PollStatDone(p) /\ run'[p].pc = "read"
AttemptFails(p) == PollFail(p) \/ PollGone(p)

(* C20 (as claimed).  No step of an attempt that does not commit changes   *)
(* the persisted progress of the file or the resume state from which its   *)
(* next attempt starts: whenever the attempt fails, both are as the last   *)
(* successful poll left them.                                              *)
C20_FailedAttemptKeepsProgress ==
  [][\A p \in Procs :
       (AttemptGoesOn(p) \/ AttemptFails(p)) =>
         LET f == Head(run[p].queue)
         IN /\ persisted' = persisted
            /\ ResumeState(fileStates', persisted', f) = ResumeState(fileStates, persisted, f)]_vars

(* C20 (amended).  A failing I/O call changes neither the persisted        *)
(* progress nor the resume states nor the event lists, and the retry       *)
(* starts at the same file.  The part of an attempt before the read leaves *)
(* the persisted progress and the resume state of the file as they are     *)
(* when the progress is valid for the stat of the attempt; when it is not  *)
(* (the file is smaller than the persisted offset, or older), the progress *)
(* and the resume state of the file are reset to byte 0, and they stay     *)
(* reset when the attempt fails.  The state handed to the parser is the    *)
(* one in the map, unchanged.                                              *)
C20_FailedAttemptKeepsValidProgress ==
  [][\A p \in Procs :
       /\ AttemptFails(p) =>
            /\ UNCHANGED <<persisted, fileStates, eventsBySessionKey, dedupersBySession>>
            /\ run[p].attempt < maxAttempts =>
                 /\ run'[p].queue = run[p].queue
                 /\ run'[p].pc = "stat"
                 /\ run'[p].attempt = run[p].attempt + 1
       /\ AttemptGoesOn(p) =>
            LET f == Head(run[p].queue)
            IN /\ fileStates'[f] = run'[p].prev
               /\ IF validatePersistedProgress(persisted, f, Stat(f))
                  THEN /\ persisted' = persisted
                       /\ ResumeState(fileStates', persisted', f)
                            = ResumeState(fileStates, persisted, f)
                  ELSE /\ persisted'[f].byteOffset = 0
                       /\ fileStates'[f].byteOffset = 0
                       /\ fileStates'[f].partialBuffer = <<>>]_vars

\* an attempt has failed after a poll of the file had succeeded, and the retry finds
\* the progress of that poll
C20_Witness ==
  \E p \in Procs :
    /\ run[p].pc = "stat"
    /\ run[p].attempt >= 1
    /\ Has(persisted, Head(run[p].queue))
    /\ Has(fileStates, Head(run[p].queue))
    /\ persisted[Head(run[p].queue)].byteOffset > 0
    /\ fileStates[Head(run[p].queue)].byteOffset = persisted[Head(run[p].queue)].byteOffset


(* C21.  At most one flush batch runs at a time.  flushInProgress is set   *)
(* exactly while the flush is at a file of its batch; a batch that runs    *)
(* only goes on from file to file until it ends, and nothing replaces it;  *)
(* and a flush that finds flushInProgress set polls nothing, leaves the    *)
(* pending files as they are and arms the flush timer again.               *)
C21_SingleFlight ==
  /\ [](flushInProgress <=> run["flush"].pc # "idle")
  /\ [][/\ (flushPendingFiles /\ flushInProgress) =>
             /\ run' = run
             /\ pendingFiles' = pendingFiles
             /\ pendingFlushTimer' > 0
             /\ flushInProgress'
             /\ fileStates' = fileStates
             /\ debugSnapshot' = debugSnapshot
        /\ flushInProgress =>
             /\ run'["flush"].queue \in {run["flush"].queue, Tail(run["flush"].queue)}
             /\ flushInProgress' <=> (run'["flush"].queue # <<>>)]_vars

\* a batch is at the read of a file while another file is pending and the flush timer
\* is armed: the timer will fire while the flag is set
C21_Witness ==
  /\ flushInProgress
  /\ run["flush"].pc = "read"
  /\ pendingFlushTimer > 0
  /\ pendingFiles # <<>>
  /\ Head(pendingFiles) # Head(run["flush"].queue)


NoRepeat(q) == \A i, j \in 1..Len(q) : q[i] = q[j] => i = j

(* C22.  At most one flush timeout is pending at any time, and a           *)
(* notification for a rollout file leaves exactly one pending, with the    *)
(* file among the pending files.  No path is twice among the pending files *)
(* or in a batch, and the flush that begins a batch takes all the pending  *)
(* files into it and leaves none pending and no timeout behind: the        *)
(* notifications that arrived before the timer fired make one batch, in    *)
(* which each path is polled once.                                         *)
C22_OneTimerOneBatch ==
  /\ [](pendingFlushTimer <= 1)
  /\ [](NoRepeat(pendingFiles) /\ NoRepeat(run["flush"].queue))
  /\ [][/\ \A path \in Files :
               enqueueFileChange(path) =>
                 /\ pendingFlushTimer' = 1
                 /\ Range(pendingFiles') = Range(pendingFiles) \cup {path}
                 /\ run' = run
        /\ (~flushInProgress /\ flushInProgress') =>
             /\ flushPendingFiles
             /\ run'["flush"].queue = pendingFiles
             /\ run'["flush"].attempt = 0
             /\ pendingFiles' = <<>>
             /\ pendingFlushTimer' = 0]_vars

\* a batch of two files has begun: both were reported before the timer fired
C22_Witness ==
  /\ flushInProgress
  /\ Len(run["flush"].queue) = 2
  /\ Range(run["flush"].queue) = Files
  /\ pendingFiles = <<>>
  /\ pendingFlushTimer = 0
  /\ ~Has(fileStates, FileList[1])
  /\ ~Has(fileStates, FileList[2])


\* the flush is at the poll of file f
Polling(f) ==
  /\ run["flush"].pc \in {"stat", "read"}
  /\ Head(run["flush"].queue) = f

InCycle(p) == run[p].pc \in {"stat", "read"}

(* C24.  Every poll cycle ends.  The number of the attempt never exceeds   *)
(* maxAttempts.  A step of a poll cycle either goes on with the same file, *)
(* from the stat to the read of the same attempt or to the stat of the     *)
(* next attempt, or it ends the cycle and returns to the caller, which     *)
(* goes to its next file or ends (the flush releasing flushInProgress); a  *)
(* cycle that ends with a failed attempt has recorded lastError.  When the *)
(* I/O calls answer or fail and the waits end, the caller gets past every  *)
(* file: its list of files left becomes shorter.                           *)
C24_PollCycleEnds ==
  /\ [](\A p \in Procs : run[p].attempt \in 0..maxAttempts)
  /\ [][\A p \in Procs :
          (InCycle(p) /\ run'[p] # run[p]) =>
            \/ /\ run'[p].queue = run[p].queue
               /\ run'[p].call = run[p].call
               /\ \/ /\ run'[p].attempt = run[p].attempt + 1
                     /\ run'[p].pc = "stat"
                     /\ AttemptFails(p)
                  \/ /\ run'[p].attempt = run[p].attempt
                     /\ run[p].pc = "stat"
                     /\ run'[p].pc = "read"
            \/ /\ run'[p].queue = Tail(run[p].queue)
               /\ run'[p].attempt = 0
               /\ run'[p].pc = IF Tail(run[p].queue) = <<>> THEN "idle" ELSE "stat"
               /\ (p = "flush" /\ Tail(run[p].queue) = <<>>) => ~flushInProgress'
               /\ AttemptFails(p) => /\ debugSnapshot'.lastError
                                     /\ run[p].attempt = maxAttempts]_vars
  /\ \A p \in Procs : \A n \in 1..Len(FileList) :
       (Len(run[p].queue) = n) ~> (Len(run[p].queue) < n)

\* warmSession is at its second file after the poll of the first, which is gone, has
\* given up, and the second poll is at a retry
C24_Witness ==
  /\ run["warm"].queue = <<FileList[2]>>
  /\ run["warm"].pc = "stat"
  /\ run["warm"].attempt = 1
  /\ debugSnapshot.lastError
  /\ FileList[1] \in env.gone
  /\ ~Has(fileStates, FileList[1])


\* the poll cycle of p ends with this step, at a failed attempt
GivesUp(p) == AttemptFails(p) /\ run'[p].queue = Tail(run[p].queue)

(* C25 (as claimed).  When a poll cycle gives up, the poll has been        *)
(* attempted exactly maxAttempts times in that cycle: the attempts are     *)
(* numbered from 0, so that the one that gives up has the number           *)
(* maxAttempts - 1.  The cycle that the caller starts next begins at       *)
(* attempt 0.                                                              *)
C25_GivesUpAfterMaxAttempts ==
  [][\A p \in Procs :
       GivesUp(p) => /\ run[p].attempt + 1 = maxAttempts
                     /\ run'[p].attempt = 0]_vars

\* the second half alone: after a cycle has given up, the next cycle of the caller
\* begins at attempt 0
C25_NextCycleFromZero ==
  [][\A p \in Procs : GivesUp(p) => run'[p].attempt = 0]_vars


(* C26.  The wait before the retry that follows failed attempt number a is *)
(* min(5000, 200 * 2^a) ms.  The first wait of a cycle is 200 ms, every    *)
(* wait is twice the wait before it or 5000 ms, whichever is less, no wait *)
(* is shorter than the wait before it, and none exceeds 5000 ms.           *)
C26_BackoffDoublesToCap ==
  [][\A p \in Procs :
       (AttemptFails(p) /\ ~GivesUp(p)) =>
         LET a == run[p].attempt
             before == run[p].delayMs
             wait == run'[p].delayMs
         IN /\ wait = Min(5000, 200 * 2^a)
            /\ a = 0 => wait = 200
            /\ a > 0 => wait = Min(5000, 2 * before)
            /\ wait >= before
            /\ wait <= 5000]_vars

\* the last attempt of a cycle, after the wait that the cap has cut
C26_Witness ==
  \E p \in Procs :
    /\ run[p].pc = "stat"
    /\ run[p].attempt = maxAttempts
    /\ run[p].delayMs = 5000


\* the state with which the parser starts to read in the attempt of p whose stat is
\* answered by this step: the state of the read that follows, or the state committed
\* by a poll that finds nothing to read
StartState(p) ==
  IF run'[p].pc = "read" /\ run'[p].queue = run[p].queue
  THEN run'[p].cur.state
  ELSE fileStates'[Head(run[p].queue)]

Stale(f) ==
  /\ Has(persisted, f)
  /\ \/ Stat(f).size < persisted[f].byteOffset
     \/ Stat(f).mtimeMs < persisted[f].lastMtimeMs

(* C28.  When a poll finds the file smaller than the persisted byteOffset  *)
(* or older than the persisted modification time, the persisted progress   *)
(* of the file is set to offset 0 and the resume state of the file is      *)
(* replaced: the same attempt starts at byte 0 with an empty partial       *)
(* buffer and seq 0.  The attempt is not a failed one: it goes on to its   *)
(* read or commits, its number stays, and lastError is not set.            *)
C28_StaleProgressIsReset ==
  [][\A p \in Procs :
       (PollStatDone(p) /\ Stale(Head(run[p].queue))) =>
         LET f == Head(run[p].queue)
         IN /\ persisted'[f].byteOffset = 0
            /\ StartState(p).byteOffset = 0
            /\ StartState(p).partialBuffer = <<>>
            /\ StartState(p).seq = 0
            /\ debugSnapshot'.lastError = debugSnapshot.lastError
            /\ IF Stat(f).size > 0
               THEN /\ run'[p].pc = "read"
                    /\ run'[p].queue = run[p].queue
                    /\ run'[p].attempt = run[p].attempt
                    /\ run'[p].cur.newBytes = Stat(f).size
               ELSE /\ run'[p].queue = Tail(run[p].queue)
                    /\ fileStates'[f].byteOffset = 0]_vars

\* a poll reads the file from byte 0 again, in its first attempt, after an earlier
\* poll had committed events of the file: the progress of that poll was stale
C28_Witness ==
  \E p \in Procs :
    /\ run[p].pc = "read"
    /\ run[p].attempt = 0
    /\ run[p].cur.state.byteOffset = 0
    /\ run[p].cur.state.seq = 0
    /\ Has(persisted, Head(run[p].queue))
    /\ persisted[Head(run[p].queue)].byteOffset = 0
    /\ Has(eventsBySessionKey, dirname(Head(run[p].queue)))
    /\ ~debugSnapshot.lastError


\* the poll of p succeeds with this step: it commits what it read, or that there was
\* nothing to read
PollSucceeds(p) ==
  \/ \E now \in Later : ReadDone(p, now)
  \/ PollStatDone(p) /\ ~(run'[p].pc = "read" /\ run'[p].queue = run[p].queue)

\* the stat of the attempt that succeeds with this step
ObservedStat(p) == IF run[p].pc = "read" THEN run[p].stat ELSE Stat(Head(run[p].queue))

\* the events that this step appended
AppendedNow ==
  IF Len(onDidAppendEvents') > Len(onDidAppendEvents)
  THEN onDidAppendEvents'[Len(onDidAppendEvents')] ELSE <<>>

(* C29 (as claimed).  After a successful poll of a file of a known         *)
(* session, the updatedAt of the session is at least the newest timestamp  *)
(* of the events that the poll appended and at least the modification time *)
(* of the file that the poll observed.                                     *)
C29_UpdatedAtCoversPoll ==
  [][\A p \in Procs :
       PollSucceeds(p) =>
         LET k == dirname(Head(run[p].queue))
         IN Has(sessionsByKey', k) =>
              /\ \A i \in 1..Len(AppendedNow) :
                    sessionsByKey'[k].updatedAt >= AppendedNow[i].ts
              /\ sessionsByKey'[k].updatedAt >= isoOfMs(ObservedStat(p).mtimeMs)]_vars

\* what the store does keep: updatedAt is at least the newest timestamp of the events
\* appended, and at least the modification time when the poll appended no event
C29_UpdatedAtCoversEventsOrMtime ==
  [][\A p \in Procs :
       PollSucceeds(p) =>
         LET k == dirname(Head(run[p].queue))
         IN Has(sessionsByKey', k) =>
              /\ \A i \in 1..Len(AppendedNow) :
                    sessionsByKey'[k].updatedAt >= AppendedNow[i].ts
              /\ (debugSnapshot'.lastPoll.extracted = 0) =>
                    sessionsByKey'[k].updatedAt >= isoOfMs(ObservedStat(p).mtimeMs)]_vars


(* C30 (as claimed).  Two sessions-changed notifications are never fired   *)
(* less than waitMs apart, whenever the requests arrive and the timeout    *)
(* runs.                                                                   *)
C30_NotificationsApart ==
  \A i \in 2..Len(emitSessions.fired) :
    emitSessions.fired[i] - emitSessions.fired[i - 1] >= waitMs

\* the second half: a request that did not fire has its timeout pending, due no later
\* than waitMs after the last notification, and the timeout runs when it is due
C30_PendingRequestHasTimer ==
  /\ emitSessions.pendingArgs =>
        /\ emitSessions.timer # NoTimer
        /\ emitSessions.timer <= emitSessions.last + waitMs
  /\ emitSessions.timer # NoTimer => emitSessions.now <= emitSessions.timer



\* no poll runs
PollingStopped == \A p \in Procs : run[p].pc = "idle"

\* the writes of the progress are coalesced, and each write carries the progress as it
\* is when it is issued
C31_Coalesced ==
  /\ [](requestPersistSave \in 0..1)
  /\ [][\A p \in Procs : PollSucceeds(p) =>
          /\ requestPersistSave' = 1
          /\ globalState' = globalState]_vars
  /\ [][globalState' # globalState =>
          /\ requestPersistSave = 1
          /\ requestPersistSave' = 0
          /\ globalState' = Snapshot(persisted)
          /\ persisted' = persisted]_vars

(* C31 (as claimed).  Progress writes are coalesced: at most one write is  *)
(* pending, every successful poll leaves one write pending and issues      *)
(* none, and a write is issued only by the pending timeout and carries the *)
(* whole progress as it is then.  Once polling has stopped, the progress   *)
(* in durable storage is eventually, and from then on, the progress in     *)
(* memory.                                                                 *)
C31_SavedEqualsMemory ==
  /\ C31_Coalesced
  /\ <>[]PollingStopped => <>[](loadPersisted(globalState) = persisted)

(* C31 (amended).  Progress writes are coalesced as above.  Once polling   *)
(* has stopped, eventually no write is pending and the progress in durable *)
(* storage has every file of the progress in memory, with the same         *)
(* offset, size and mtime except for files whose progress in memory has    *)
(* been reset to offset 0: a poll that discards stale progress and then    *)
(* fails schedules no write.                                               *)
C31_SavedEqualsCommitted ==
  /\ C31_Coalesced
  /\ <>[]PollingStopped =>
       <>[](/\ requestPersistSave = 0
            /\ \A f \in Files :
                 Has(persisted, f) =>
                   /\ Has(loadPersisted(globalState), f)
                   /\ \/ loadPersisted(globalState)[f] = persisted[f]
                      \/ persisted[f].byteOffset = 0)

\* two polls have succeeded and appended events, one write is pending and none has
\* been issued
C31_Witness ==
  /\ requestPersistSave = 1
  /\ ~globalState.stored
  /\ Len(onDidAppendEvents) >= 2
  /\ Has(persisted, ActiveFile)



\* the snapshot is one that loadPersisted takes
Usable(raw) == raw.stored /\ raw.version = 1 /\ raw.hasFileProgress

(* C32.  A store can be constructed over whatever is stored.  Constructed  *)
(* over a snapshot that is missing, has a version other than 1 or has no   *)
(* fileProgress, it starts with empty progress, and the first poll of      *)
(* every file then starts at offset 0; constructed over a snapshot with    *)
(* version 1 and fileProgress, it starts with that fileProgress,           *)
(* unchanged.                                                              *)
C32_LoadsOrStartsEmpty ==
  /\ []((/\ env.restarts < MaxRestarts
          /\ \A p \in Procs : run[p].pc = "idle"
          /\ requestPersistSave = 0) => ENABLED Restart)
  /\ [][Restart =>
          /\ ~Usable(globalState) => persisted' = EmptyMap
          /\ Usable(globalState) => persisted' = globalState.fileProgress]_vars
  /\ [][\A p \in Procs :
          (/\ PollStatDone(p)
           /\ env.restarts > 0
           /\ env.loaded = EmptyMap
           /\ ~Has(fileStates, Head(run[p].queue))) => StartState(p).byteOffset = 0]_vars

\* the store was constructed over a snapshot of version 2 that has progress for the
\* file, and has read the file from offset 0
C32_Witness ==
  /\ env.restarts > 0
  /\ globalState.stored
  /\ globalState.version = 2
  /\ Has(globalState.fileProgress, ActiveFile)
  /\ globalState.fileProgress[ActiveFile].byteOffset > 0
  /\ env.loaded = EmptyMap
  /\ Has(fileStates, ActiveFile)
  /\ fileStates[ActiveFile].byteOffset > 0



\* the kind fixed for the type of record r, "" for a type that is not recognized
KindOf(r) ==
  IF r.type = "parse_error" THEN "ERROR"
  ELSE IF r.type \in {"session_meta", "turn_context"} THEN "META"
  ELSE IF r.type = "event_msg"
  THEN (IF r.ptype = "agent_reasoning" THEN "REASONING"
        ELSE IF r.ptype = "user_message" THEN "USER_MSG"
        ELSE IF r.ptype = "agent_message" THEN "AGENT_MSG"
        ELSE IF r.ptype = "token_count" THEN "META" ELSE "")
  ELSE IF r.type = "response_item"
  THEN (IF r.ptype = "function_call" THEN "TOOL_CALL"
        ELSE IF r.ptype = "function_call_output" THEN "TOOL_RESULT"
        ELSE IF r.ptype = "reasoning" THEN "REASONING" ELSE "")
  ELSE ""

\* r is a response_item reasoning whose summary text is blank
BlankReasoning(r) ==
  /\ r.type = "response_item"
  /\ r.ptype = "reasoning"
  /\ \/ ~r.summary.isArray
     \/ \A i \in 1..Len(r.summary.texts) : r.summary.texts[i] \in {"", "ws"}

RECURSIVE FirstAdded(_)
FirstAdded(calls) ==
  IF calls = <<>> THEN <<>>
  ELSE LET before == FirstAdded(SubSeq(calls, 1, Len(calls) - 1))
           id == calls[Len(calls)]
       IN IF id \in Range(before) THEN before ELSE Append(before, id)

\* the last k elements of a sequence
LastOf(s, k) == SubSeq(s, Max(1, Len(s) - k + 1), Len(s))

\* the ids admitted by a sequence of calls and not evicted since, oldest first: a call
\* admits its id when the id is not held at the time of the call
RECURSIVE Admitted(_, _)
Admitted(calls, max) ==
  IF calls = <<>> THEN <<>>
  ELSE LET before == Admitted(SubSeq(calls, 1, Len(calls) - 1), max)
           id == calls[Len(calls)]
       IN IF id \in Range(before) THEN before ELSE LastOf(Append(before, id), max)

\* the set and the queue of the deduper agree and are bounded, and an add of an id that
\* is present changes nothing
C34_SetIsQueue ==
  /\ [](LET d == eventDeduper.d
        IN /\ Cardinality(d.set) <= d.max
           /\ d.set = Range(d.queue)
           /\ Len(d.queue) = Cardinality(d.set))
  /\ [][\A id \in {"a", "b", "c"} :
          (EventDeduperAdd(id) /\ id \in eventDeduper.d.set) =>
             eventDeduper'.d = eventDeduper.d]_vars

ReadsFromInsideLine(p) ==
  LET f == Head(run[p].queue)
      o == run[p].prev.byteOffset
  IN /\ \E now \in Later : ReadDone(p, now)
     /\ env.restarts > 0
     /\ Has(env.loaded, f)
     /\ o = Max(0, env.loaded[f].byteOffset - rewind)
     /\ run[p].prev.seq = 0
     /\ run[p].prev.partialBuffer = <<>>
     /\ o > 0
     /\ fs[f].content[o] # "LF"

\* the line feeds that end the whole lines of the text behind offset o, which lies
\* inside a line: those behind the line feed that ends that line
WholeLinesBehind(text, o) ==
  LET behind == {i \in LineFeeds(text) : i > o}
  IN {i \in behind : i > SetMin(behind) /\ LineEndingAt(text, i) # <<>>}

(* C35.  The first read of a file that the restarted store resumes at a    *)
(* rewound offset inside a line appends events for whole lines only: no    *)
(* more events than there are whole lines behind the offset, each with the *)
(* kind of the event of one of these lines.  The text between the offset   *)
(* and the next line feed gives no event.                                  *)
C35_RewoundPollYieldsWholeLines ==
  [][\A p \in Procs :
       ReadsFromInsideLine(p) =>
         LET text == fs[Head(run[p].queue)].content
             whole == WholeLinesBehind(text, run[p].prev.byteOffset)
         IN /\ Len(AppendedNow) <= Cardinality(whole)
            /\ \A k \in 1..Len(AppendedNow) :
                 \E i \in whole :
                   \E j \in 1..Len(LineEvents(LineEndingAt(text, i))) :
                     LineEvents(LineEndingAt(text, i))[j].kind = AppendedNow[k].kind]_vars



\* the list of a session, empty for a session without one
ListOf(lists, key) == IF Has(lists, key) THEN lists[key] ELSE <<>>

\* how often e occurs in the sequence s
Count(s, e) == Cardinality({i \in 1..Len(s) : s[i] = e})

\* the events this step appended that belong to the session
AppendedTo(key) == SelectSeq(AppendedNow, LAMBDA e : e.sessionKey = key)

(* C36.  No events-appended notification has an empty payload.  A step     *)
(* that is no clearSession of a session fires a payload exactly when it    *)
(* changes the list of the session, and the list after the step holds the  *)
(* events it held and the events of the payload, each as often as the list *)
(* before and the payload together hold it: the payloads fired since the   *)
(* list was cleared are a permutation of the list.                         *)
C36_PayloadsArePermutationOfList ==
  /\ [](\A i \in 1..Len(onDidAppendEvents) : onDidAppendEvents[i] # <<>>)
  /\ [][\A key \in {"s1", "s2"} :
          LET before == ListOf(eventsBySessionKey, key)
              after == ListOf(eventsBySessionKey', key)
              out == AppendedTo(key)
          IN IF clearSession(key)
             THEN after = <<>> /\ AppendedNow = <<>>
             ELSE /\ Len(after) = Len(before) + Len(out)
                  /\ \A e \in Range(after) \cup Range(before) \cup Range(out) :
                       Count(after, e) = Count(before, e) + Count(out, e)
                  /\ (after # before) <=> (out # <<>>)]_vars

\* the session was cleared and events have been appended to it since: the payloads
\* fired hold more events than the list
C36_Witness ==
  /\ Len(onDidAppendEvents) >= 2
  /\ Has(eventsBySessionKey, "s1")
  /\ eventsBySessionKey["s1"] = onDidAppendEvents[Len(onDidAppendEvents)]
  /\ Len(Concat(onDidAppendEvents)) > Len(eventsBySessionKey["s1"])



\* the elements of a are in b, in the same order
RECURSIVE IsSubsequence(_, _)
IsSubsequence(a, b) ==
  IF a = <<>> THEN TRUE
  ELSE IF b = <<>> THEN FALSE
  ELSE IF Head(a) = Head(b) THEN IsSubsequence(Tail(a), Tail(b))
  ELSE IsSubsequence(a, Tail(b))

(* C37.  The session lists are append-only.  Every step that is no         *)
(* clearSession of a session - of a poll that succeeds, fails or is        *)
(* retried, of a rescan, of a poll that resets a truncated file - leaves   *)
(* every event of the session's list in the list, unchanged and in the     *)
(* same order; a step after which the list is shorter, or lacks an event   *)
(* it held, is a clearSession of the session.                              *)
C37_ListsAppendOnly ==
  [][\A key \in {"s1", "s2"} :
       LET before == ListOf(eventsBySessionKey, key)
           after == ListOf(eventsBySessionKey', key)
       IN ~IsSubsequence(before, after) =>
            /\ clearSession(key)
            /\ after = <<>>]_vars

\* the file was emptied and a poll has read it to its end since, from byte 0 again, and
\* the list of the session holds the events of three lines
C37_Witness ==
  /\ env.truncs > 0
  /\ Has(fileStates, ActiveFile)
  /\ fileStates[ActiveFile].lastSize >= 0
  /\ fileStates[ActiveFile].byteOffset = Len(fs[ActiveFile].content)
  /\ Len(ListOf(eventsBySessionKey, "s1")) >= 3



\* clearSession removes the list and the deduper of the session and nothing else
C38_ClearFrame ==
  [][\A key \in {"s1", "s2"} :
       clearSession(key) =>
         /\ ~Has(eventsBySessionKey', key)
         /\ ~Has(dedupersBySession', key)
         /\ UNCHANGED <<fileStates, persisted, sessionsByKey>>
         /\ \A other \in {"s1", "s2"} \ {key} :
              /\ Has(eventsBySessionKey', other) = Has(eventsBySessionKey, other)
              /\ ListOf(eventsBySessionKey', other) = ListOf(eventsBySessionKey, other)
              /\ Has(dedupersBySession', other) = Has(dedupersBySession, other)
              /\ Has(dedupersBySession, other) =>
                   dedupersBySession'[other] = dedupersBySession[other]]_vars

\* no file is larger than the latest clearSession found it
NotGrownSinceClear == \A f \in Files : Len(fs[f].content) <= env.cleared.sizes[f]

\* the list of the cleared session holds none of the events that were cleared
NoneBack ==
  \A i \in 1..Len(ListOf(eventsBySessionKey, env.cleared.key)) :
    eventsBySessionKey[env.cleared.key][i].id \notin env.cleared.ids

C39_OneActiveWatcher ==
  /\ [](Cardinality(watchers.active) <= 1)
  /\ [](Cardinality(watchers.enqueuedBy) <= 1 /\ watchers.enqueuedBy \subseteq {watchers.handle})
  /\ [][\A r \in {"start", "reload"} :
          startWatcherEnd(r, TRUE) => watchers'.active = {watchers'.handle}]_vars



\* the render items that hold an event: as the item itself, as the call of a call
\* block or as its result
ItemsHolding(e) ==
  {k \in 1..Len(renderItems) :
     \/ renderItems[k].kind = "single" /\ renderItems[k].event = e
     \/ renderItems[k].kind = "callBlock" /\ renderItems[k].call = e
     \/ renderItems[k].kind = "callBlock" /\ renderItems[k].result = e}

(* C40.  In the rendered timeline every visible event is in exactly one    *)
(* render item: none is dropped, and none - no TOOL_RESULT in particular - *)
(* is in two items, whatever the order of calls and results and also when  *)
(* two calls have the same call id.                                        *)
C40_EveryEventInExactlyOneItem ==
  renderItems # <<>> =>
    \A i \in 1..Len(visible) : Cardinality(ItemsHolding(visible[i])) = 1

=============================================================================
